---- MODULE Spec2Model ----
(***************************************************************************)
(* Crestron NVX manager: the main-process IPC handlers that talk to a      *)
(* device (cookie/token login, parameter import, identify, EDID, streams,  *)
(* network adapters, connect), the renderer's DeviceConnectionService and  *)
(* the DeviceDiscoveryService registry.                                    *)
(*                                                                         *)
(* Strings the code splits or searches are sequences of tokens: "TRACKID", *)
(* "=", ";", " " and opaque value tokens.  A JavaScript object is a record *)
(* whose DOMAIN is the set of properties it has.                           *)
(***************************************************************************)
EXTENDS Integers, Sequences, FiniteSets, TLC

VARIABLES
    op,                 \* IPC handler in progress, or "none"
    pc,                 \* position of that handler (the await it is suspended at)
    trackId,            \* handler local
    xsrfToken,          \* handler local
    cookies,            \* handler local
    useHttps,           \* handler local
    epIdx,              \* import: index into deviceEndpoints / connect: into authEndpoints
    responses,          \* import: endpoint -> response data
    result,             \* what the handler returned
    log,                \* every request sent and every answer received, in order
    args,               \* the handler's arguments
    env,                \* how the device behaves during this call
    connections,        \* DeviceConnectionService.connections
    credentials,        \* DeviceConnectionService.credentials
    certificateOptions, \* DeviceConnectionService.certificateOptions
    deviceParameters,   \* DeviceConnectionService.deviceParameters
    svcCall,            \* service method awaiting the handler
    svcResult,          \* what the service method returned
    discoveredDevices,  \* DeviceDiscoveryService.discoveredDevices: its values, in insertion order
    objStatus,          \* the status field of every device object still referred to
    isDiscovering,      \* DeviceDiscoveryService.isDiscovering
    discoveries,        \* startDiscovery calls in flight
    cycles,             \* refresh cycles (interval callbacks) in flight
    clock,              \* the time new Date() reads
    dedupIn,            \* argument of deduplicateDevices
    dedupOut,           \* its result
    discoveryCallbacks, \* DeviceDiscoveryService.discoveryCallbacks
    notified,           \* the callbacks the last step invoked, in order
    delivered,          \* receiver -> the list it was last handed
    unsubscribed,       \* history: callbacks removed since they last subscribed
    returned,           \* what the startDiscovery or addDevice call that ended in the last step returned
    transport,          \* main process: the transport probe in progress, or "none"
    sock,               \* its datagram socket: "binding", "failed", "bound" or "closed"
    found,              \* its local list `devices`
    seenIPs,            \* its local set of addresses (vendor probe)
    sends,              \* socket.send calls whose callback has not run
    failures,           \* history: the transport failures of this call
    heard,              \* history: the datagrams its message handler was given
    settled,            \* the promise the discover handler returns
    pageParameters,     \* Devices page: its deviceParameters state, <<>> for null
    editValues,         \* DeviceParameters: editValues
    shownNetworkData,   \* NetworkAdapterSettings: networkData, <<>> for null
    editedSettings,     \* NetworkAdapterSettings: editedSettings
    hasChanges,         \* NetworkAdapterSettings: hasChanges
    uiCall,             \* the component handler awaiting a result
    atCall,             \* history: the local data when that handler was called
    lastWrite,          \* history: the last write updateParameter reported as done
    isIdentifying,      \* DeviceLocate: isIdentifying
    connects            \* connectToDevice calls awaiting window.electronAPI.connectDevice

hvars == <<op, pc, trackId, xsrfToken, cookies, useHttps, epIdx, responses, result, log, args, env>>
svars == <<connections, credentials, certificateOptions, deviceParameters, svcCall, svcResult>>
nvars == <<discoveryCallbacks, notified, delivered, unsubscribed, returned>>
rvars == <<discoveredDevices, objStatus, isDiscovering, discoveries, cycles, clock, nvars>>
dvars == <<dedupIn, dedupOut>>
pvars == <<transport, sock, found, seenIPs, sends, failures, heard, settled>>
uvars == <<pageParameters, editValues, shownNetworkData, editedSettings, hasChanges, uiCall, atCall, lastWrite>>
lvars == <<isIdentifying, connects>>
vars == <<hvars, svars, rvars, dvars, pvars, uvars, lvars>>
\* what a handler of the main process cannot touch
renderer == <<svars, rvars, dvars, pvars, uvars, lvars>>

----------------------------------------------------------------------------
(* Bounds of the model *)

\* at most this many sub-resource fetches of one import fail, unless all do
MaxFail == 1

----------------------------------------------------------------------------
(* JavaScript values *)

Null == <<"<null>">>
Undefined == <<"<undefined>">>
EmptyStr == <<>>
Falsy(s) == s \in {Null, Undefined, EmptyStr}

Has(o, f) == f \in DOMAIN o
Flag(o, f) == Has(o, f) /\ o[f] = TRUE
EmptyObj == [x \in {} |-> 0]

\* the header object of a response: the set-cookie array, present or not
NoSetCookie == [present |-> FALSE, arr |-> <<>>]
SetCookie(a) == [present |-> TRUE, arr |-> a]

Includes(s, tok) == \E i \in 1..Len(s) : s[i] = tok
IndexOf(s, tok) == IF Includes(s, tok)
                   THEN CHOOSE i \in 1..Len(s) : s[i] = tok /\ \A j \in 1..(i-1) : s[j] # tok
                   ELSE 0
\* s.split(tok)[0]
SplitHead(s, tok) == IF Includes(s, tok) THEN SubSeq(s, 1, IndexOf(s, tok) - 1) ELSE s
\* everything after the first tok
SplitRest(s, tok) == SubSeq(s, IndexOf(s, tok) + 1, Len(s))
\* s.split(tok)[1], Undefined when s has no tok
SplitSecond(s, tok) == IF Includes(s, tok) THEN SplitHead(SplitRest(s, tok), tok) ELSE Undefined

\* setCookieHeader.find(cookie => cookie.includes('TRACKID')): index, 0 if none
FindTrackCookie(arr) ==
    IF \E i \in 1..Len(arr) : Includes(arr[i], "TRACKID")
    THEN CHOOSE i \in 1..Len(arr) : Includes(arr[i], "TRACKID")
                                   /\ \A j \in 1..(i-1) : ~Includes(arr[j], "TRACKID")
    ELSE 0

\* trackIdMatch.split('=')[1].split(';')[0] throws a TypeError when split('=')[1] is undefined
ParseThrows(h) ==
    /\ h.present
    /\ FindTrackCookie(h.arr) # 0
    /\ ~Includes(h.arr[FindTrackCookie(h.arr)], "=")

\* a faulty extraction: a fixed value instead of the one the device issued
ExtractTrackIdMut(h) == IF h.present /\ FindTrackCookie(h.arr) # 0 THEN <<"z">> ELSE Null
\* the value trackId has after the header of the tracking GET was read
ExtractTrackId(h) ==
    IF h.present /\ FindTrackCookie(h.arr) # 0
    THEN SplitHead(SplitSecond(h.arr[FindTrackCookie(h.arr)], "="), ";")
    ELSE Null

RECURSIVE JoinCookies(_)
\* allCookies.map(cookie => cookie.split(';')[0]).join('; ')
JoinCookies(arr) ==
    IF Len(arr) = 0 THEN <<>>
    ELSE IF Len(arr) = 1 THEN SplitHead(arr[1], ";")
    ELSE SplitHead(arr[1], ";") \o <<";", " ">> \o JoinCookies(Tail(arr))

\* a faulty capture: the cookies of the login response are dropped
LoginCookiesMut(h) == EmptyStr
\* cookies after the login response: '' stays when the header is absent
LoginCookies(h) == IF h.present THEN JoinCookies(h.arr) ELSE EmptyStr

----------------------------------------------------------------------------
(* The device, as one call sees it *)

Addresses == {"10.0.0.5"}
Credentials == {"admin:pw1", "admin:pw2"}
CertOptions == {"any_certificate", "valid_ca_only"}

\* Set-Cookie headers the login page answers with
TrackHeaders ==
    { NoSetCookie,
      SetCookie(<< <<"sid", "=", "s1", ";", "Path">> >>),
      SetCookie(<< <<"sid", "=", "s1">>, <<"TRACKID", "=", "t1", ";", "Path">> >>),
      SetCookie(<< <<"TRACKID", "=", "t2">> >>),
      SetCookie(<< <<"TRACKID", "=", ";", "Path">> >>),
      SetCookie(<< <<"TRACKID">> >>) }

\* Set-Cookie headers of the login response
LoginHeaders ==
    { NoSetCookie,
      SetCookie(<< <<"userstr", "=", "u1", ";", "Path">>, <<"userid", "=", "i1", ";", "Secure">> >>) }

LoginStatuses == {200, 302, 401, 500}

deviceEndpoints ==
    << "/Device/DeviceInfo", "/Device/NetworkAdapters", "/Device/DeviceSpecific",
       "/Device/StreamingVideo", "/Device/StreamingAudio", "/Device/USB",
       "/Device/Network", "/Device/EdidMgmnt", "/Device/DiscoveredStreams",
       "/Device/Identify", "/Device/AudioVideoInputOutput", "/Device" >>

EndpointSet == {deviceEndpoints[i] : i \in 1..Len(deviceEndpoints)}

\* which sub-resource fetches fail during one import
FailSets == {F \in SUBSET EndpointSet : Cardinality(F) <= MaxFail} \cup {EndpointSet}

\* where the host name lives in the NetworkAdapters payload, if anywhere
NaLevels == {"HostName", "AdapterName", "none"}
\* nesting depth of the answers
Shapes == {"Device.X+X", "Device.X", "X", "bare"}

\* the CREST-XSRF-TOKEN header of the login response: absent, empty, or a token
XsrfHeaders == {Undefined, EmptyStr, <<"x1">>}

Envs ==
    [ setCookie : TrackHeaders, loginStatus : LoginStatuses, loginXsrf : XsrfHeaders,
      loginCookies : LoginHeaders, failSet : {{}}, naLevel : {"HostName"}, shape : {"bare"} ]

\* an import meets every handshake behaviour of a device that answers all fetches, and
\* every fetch-failure set and payload layout of a device whose login page behaves
ImportEnvs ==
    Envs
    \cup [ setCookie : {SetCookie(<< <<"sid", "=", "s1">>, <<"TRACKID", "=", "t1", ";", "Path">> >>)},
           loginStatus : {200}, loginXsrf : {Undefined, <<"x1">>},
           loginCookies : LoginHeaders, failSet : FailSets, naLevel : NaLevels, shape : {"bare"} ]
    \cup [ setCookie : {SetCookie(<< <<"TRACKID", "=", "t2">> >>)},
           loginStatus : {200}, loginXsrf : {<<"x1">>},
           loginCookies : LoginHeaders, failSet : {{}}, naLevel : {"HostName"}, shape : Shapes ]

NoEnv ==
    [ setCookie |-> NoSetCookie, loginStatus |-> 200, loginXsrf |-> Undefined,
      loginCookies |-> NoSetCookie, failSet |-> {}, naLevel |-> "HostName", shape |-> "bare" ]

\* the resource name X of /Device/X
ResourceOf(ep) ==
    CASE ep = "/Device/DeviceInfo" -> "DeviceInfo"
      [] ep = "/Device/NetworkAdapters" -> "NetworkAdapters"
      [] ep = "/Device/DeviceSpecific" -> "DeviceSpecific"
      [] ep = "/Device/StreamingVideo" -> "StreamingVideo"
      [] ep = "/Device/StreamingAudio" -> "StreamingAudio"
      [] ep = "/Device/USB" -> "USB"
      [] ep = "/Device/Network" -> "Network"
      [] ep = "/Device/EdidMgmnt" -> "EdidMgmnt"
      [] ep = "/Device/DiscoveredStreams" -> "DiscoveredStreams"
      [] ep = "/Device/Identify" -> "Identify"
      [] ep = "/Device/AudioVideoInputOutput" -> "AudioVideoInputOutput"
      [] OTHER -> "Device"

\* what the device holds under each sub-resource
LivePayload(ep, e) ==
    CASE ep = "/Device/DeviceInfo" ->
            [Model |-> "DM-NVX-360", FirmwareVersion |-> "6.0.1", SerialNumber |-> "SN42"]
      [] ep = "/Device/NetworkAdapters" ->
            IF e.naLevel = "HostName" THEN [HostName |-> "nvx-live", IgmpVersion |-> "v3"]
            ELSE IF e.naLevel = "AdapterName"
                 THEN [IgmpVersion |-> "v3", Adapters |-> [EthernetPrimary |-> [Name |-> "eth-live"]]]
                 ELSE [IgmpVersion |-> "v3"]
      [] ep = "/Device/DeviceSpecific" -> [LedsEnabled |-> TRUE]
      [] ep = "/Device/StreamingVideo" -> [Mode |-> "Receiver", Status |-> "Streaming"]
      [] ep = "/Device/StreamingAudio" -> [Mode |-> "Receiver"]
      [] ep = "/Device/USB" -> [Mode |-> "Host"]
      [] ep = "/Device/Network" -> [StreamLocation |-> "Rack 3"]
      [] ep = "/Device/EdidMgmnt" -> [Version |-> "2.1"]
      [] ep = "/Device/DiscoveredStreams" -> [Streams |-> [s1 |-> "stream"]]
      [] ep = "/Device/Identify" -> [Action |-> "Stop"]
      [] ep = "/Device/AudioVideoInputOutput" -> [AudioInputs |-> [in1 |-> "hdmi"]]
      [] OTHER -> [FirmwareVersion |-> "6.0.1-root", SerialNumber |-> "SN42-root"]

\* what an answer may carry next to Device: something that is not the sub-resource
Stray == [Model |-> "stray", HostName |-> "stray", Mode |-> "stray", Version |-> "stray"]

\* the JSON body of the answer to GET ep
ResponseData(ep, e) ==
    IF ep = "/Device"
    THEN IF e.shape = "bare" THEN LivePayload(ep, e) ELSE [Device |-> LivePayload(ep, e)]
    ELSE CASE e.shape = "Device.X+X" ->
                [r \in {"Device", ResourceOf(ep)} |->
                    IF r = "Device" THEN [x \in {ResourceOf(ep)} |-> LivePayload(ep, e)] ELSE Stray]
           [] e.shape = "Device.X" -> [Device |-> [r \in {ResourceOf(ep)} |-> LivePayload(ep, e)]]
           [] e.shape = "X" -> [r \in {ResourceOf(ep)} |-> LivePayload(ep, e)]
           [] OTHER -> LivePayload(ep, e)

----------------------------------------------------------------------------
(* import-parameters: merging the answers *)

\* a resolution that looks at X before Device.X
ResolveMut(resp, ep) ==
    LET x == ResourceOf(ep) IN
    IF ~Has(resp, ep) THEN EmptyObj
    ELSE IF Has(resp[ep], x) THEN resp[ep][x]
    ELSE IF Has(resp[ep], "Device") /\ Has(resp[ep].Device, x) THEN resp[ep].Device[x]
    ELSE resp[ep]

\* responses[ep]?.Device?.X || responses[ep]?.X || responses[ep] || {}
Resolve(resp, ep) ==
    LET x == ResourceOf(ep) IN
    IF ~Has(resp, ep) THEN EmptyObj
    ELSE IF Has(resp[ep], "Device") /\ Has(resp[ep].Device, x) THEN resp[ep].Device[x]
    ELSE IF Has(resp[ep], x) THEN resp[ep][x]
    ELSE resp[ep]

\* responses['/Device']?.Device || responses['/Device'] || {}
ResolveRoot(resp) ==
    IF ~Has(resp, "/Device") THEN EmptyObj
    ELSE IF Has(resp["/Device"], "Device") THEN resp["/Device"].Device
    ELSE resp["/Device"]

\* o.f || rest
Or(o, f, rest) == IF Has(o, f) THEN o[f] ELSE rest

\* networkAdapters.Adapters?.EthernetPrimary || networkAdapters.EthernetPrimary || {}
PrimaryAdapter(na) ==
    IF Has(na, "Adapters") /\ Has(na.Adapters, "EthernetPrimary") THEN na.Adapters.EthernetPrimary
    ELSE IF Has(na, "EthernetPrimary") THEN na.EthernetPrimary
    ELSE EmptyObj

\* a faulty chain: the host name taken from DeviceInfo alone
HostnameOfMut(na, di, pa) == Or(di, "HostName", Or(di, "Name", "Unknown"))
\* networkAdapters.HostName || deviceInfo.HostName || deviceInfo.Name || primaryAdapter.Name || 'Unknown'
HostnameOf(na, di, pa) ==
    Or(na, "HostName", Or(di, "HostName", Or(di, "Name", Or(pa, "Name", "Unknown"))))

\* the parameters object built from the responses (the fields this model follows)
BuildParameters(ip, resp) ==
    LET deviceInfo == Resolve(resp, "/Device/DeviceInfo")
        networkAdapters == Resolve(resp, "/Device/NetworkAdapters")
        deviceSpecific == Resolve(resp, "/Device/DeviceSpecific")
        streamingVideo == Resolve(resp, "/Device/StreamingVideo")
        streamingAudio == Resolve(resp, "/Device/StreamingAudio")
        usbData == Resolve(resp, "/Device/USB")
        networkData == Resolve(resp, "/Device/Network")
        deviceRoot == ResolveRoot(resp)
        primaryAdapter == PrimaryAdapter(networkAdapters)
        edidMgmnt == Resolve(resp, "/Device/EdidMgmnt")
        discoveredStreams == Resolve(resp, "/Device/DiscoveredStreams")
    IN  [ ipAddress |-> ip,
          hostname |-> HostnameOf(networkAdapters, deviceInfo, primaryAdapter),
          firmwareVersion |-> Or(deviceInfo, "FirmwareVersion",
                                 Or(deviceInfo, "Version", Or(deviceRoot, "FirmwareVersion", "Unknown"))),
          serialNumber |-> Or(deviceInfo, "SerialNumber",
                              Or(deviceInfo, "Serial", Or(deviceRoot, "SerialNumber", "Unknown"))),
          model |-> Or(deviceInfo, "Model", Or(deviceInfo, "DeviceModel", "DM-NVX")),
          networkHostname |-> Or(networkAdapters, "HostName", "Unknown"),
          igmpVersion |-> Or(networkAdapters, "IgmpVersion", "v2"),
          primaryAdapterName |-> Or(primaryAdapter, "Name", "eth0"),
          mode |-> Or(streamingVideo, "Mode", Or(streamingAudio, "Mode", Or(deviceRoot, "Mode", "Unknown"))),
          status |-> Or(streamingVideo, "Status", Or(streamingAudio, "Status", Or(deviceRoot, "Status", "Unknown"))),
          streamLocation |-> Or(networkData, "StreamLocation", Or(networkData, "MulticastLocation", "Local Network")),
          usbMode |-> Or(usbData, "Mode", Or(usbData, "OperatingMode", "Device")),
          ledsEnabled |-> Flag(deviceSpecific, "LedsEnabled") \/ Flag(deviceSpecific, "LEDsEnabled"),
          edidVersion |-> Or(edidMgmnt, "Version", "Unknown"),
          streamCount |-> IF Has(discoveredStreams, "Streams")
                          THEN Cardinality(DOMAIN discoveredStreams.Streams) ELSE 0 ]

\* the mock parameters of the handler's catch block (the same fields)
MockParameters(ip) ==
    [ ipAddress |-> ip,
      hostname |-> "nvx-device-5",
      firmwareVersion |-> "v7.3.0173.23090",
      serialNumber |-> "NVX<random>",
      mode |-> "Transmitter",
      status |-> "Stopped",
      streamLocation |-> "Local Network",
      usbMode |-> "Device",
      ledsEnabled |-> TRUE ]

----------------------------------------------------------------------------
(* The handlers of the main process *)

AuthOps == {"import", "identify", "edid", "streams", "getAdapters", "updateAdapters"}

\* handlers whose step-1 catch block assigns useHttps = false
StepOneSetsUseHttps(o) == o \in {"edid", "streams", "getAdapters", "updateAdapters"}
\* handlers whose login POST goes to https first and is retried over http in its catch block
LoginRetriesOverHttp(o) == o \in {"import", "identify"}

Scheme(h) == IF h THEN "https" ELSE "http"

Req(kind, scheme, path, cookie, xsrf) ==
    [ev |-> "send", kind |-> kind, scheme |-> scheme, path |-> path,
     cookie |-> cookie, xsrf |-> xsrf, status |-> 0, body |-> <<>>]
\* status 0: no answer (connection error or timeout)
Ans(kind, scheme, path, status) ==
    [ev |-> "recv", kind |-> kind, scheme |-> scheme, path |-> path,
     cookie |-> EmptyStr, xsrf |-> Undefined, status |-> status, body |-> <<>>]

LastSend == log[Len(log)]

Fail(msg) == [success |-> FALSE, error |-> msg]
NoResult == [success |-> FALSE, error |-> "<pending>"]

\* Cookie header of the login POST
TrackCookie(t) == <<"TRACKID", "=">> \o t

\* a faulty test: every status the login request resolves with counts as logged in
LoginOkMut(status) == status < 500
\* loginResponse.status !== 200 && loginResponse.status !== 302 is the failure test
LoginOk(status) == status = 200 \/ status = 302

\* axios.get / axios.post with the default validateStatus reject anything but 2xx
DefaultResolves(status) == status >= 200 /\ status < 300
\* validateStatus: status < 500
LoginResolves(status) == status > 0 /\ status < 500

\* the outer catch of a handler: import answers with mock data, the others with a failure
OuterCatch ==
    /\ result' = IF op = "import"
                 THEN [success |-> TRUE, parameters |-> MockParameters(args.ipAddress),
                       isMockData |-> TRUE, error |-> "Could not retrieve real device parameters"]
                 ELSE Fail("error.message")
    /\ pc' = "done"

Return(r) == result' = r /\ pc' = "done"

\* an IPC call of one of the session handlers arrives
Begin(o, a, e) ==
    /\ op = "none"
    /\ op' = o
    /\ args' = a
    /\ env' = e
    /\ trackId' = Null
    /\ xsrfToken' = Null
    /\ cookies' = EmptyStr
    /\ useHttps' = TRUE
    /\ epIdx' = 0
    /\ responses' = EmptyObj
    /\ result' = NoResult
    /\ log' = <<Req("track", "https", "/userlogin.html", EmptyStr, Undefined)>>
    /\ pc' = "track"

\* after step 1: if (!trackId) return failure, else send the login POST
AfterTrack(t, h, answered) ==
    /\ trackId' = t
    /\ useHttps' = h
    /\ IF Falsy(t)
       THEN /\ Return(Fail("Failed to connect to device"))
            /\ log' = log \o <<answered>>
       ELSE /\ log' = log \o <<answered,
                               Req("login",
                                   IF LoginRetriesOverHttp(op) THEN "https" ELSE Scheme(h),
                                   "/userlogin.html", TrackCookie(t), Undefined)>>
            /\ pc' = "login"
            /\ UNCHANGED result

\* the tracking GET is answered (or fails): step 1 of the handshake
Track(status) ==
    /\ pc = "track"
    /\ op \in AuthOps
    /\ LET sch == LastSend.scheme
           answered == Ans("track", sch, "/userlogin.html", status)
           thrown == ~DefaultResolves(status) \/ ParseThrows(env.setCookie)
       IN  IF ~thrown
           THEN AfterTrack(ExtractTrackId(env.setCookie), useHttps, answered)
           ELSE IF sch = "https"
                THEN /\ useHttps' = IF StepOneSetsUseHttps(op) THEN FALSE ELSE useHttps
                     /\ log' = log \o <<answered,
                                        Req("track", "http", "/userlogin.html", EmptyStr, Undefined)>>
                     /\ UNCHANGED <<pc, trackId, result>>
                ELSE /\ OuterCatch
                     /\ log' = log \o <<answered>>
                     /\ UNCHANGED <<trackId, useHttps>>
    /\ UNCHANGED <<op, xsrfToken, cookies, epIdx, responses, args, env, renderer>>

\* a payload that always asks for the default duration
identifyPayloadMut(duration) == [Action |-> "Start", Duration |-> 30]

\* identify-device: identifyPayload.Device.Identify
identifyPayload(duration) == [Action |-> "Start", Duration |-> duration]

\* the first authenticated request of each handler (step 3)
FirstAuthRequest(o, h, ck, x) ==
    CASE o = "import" -> Req("auth", Scheme(h), deviceEndpoints[1], ck, x)
      [] o = "identify" -> [Req("auth", Scheme(h), "POST /Device/Identify", ck, x)
                                EXCEPT !.body = <<identifyPayload(args.duration)>>]
      [] o = "edid" -> Req("auth", Scheme(h), "/Device/EdidMgmnt", ck, x)
      [] o = "streams" -> Req("auth", Scheme(h), "/Device/DiscoveredStreams", ck, x)
      [] o = "getAdapters" -> Req("auth", Scheme(h), "/Device/NetworkAdapters", ck, x)
      [] OTHER -> Req("auth", Scheme(h), "POST /Device/NetworkAdapters", ck, x)

\* the login POST is answered (or fails): step 2 of the handshake
Login(status) ==
    /\ pc = "login"
    /\ op \in AuthOps
    /\ LET sch == LastSend.scheme
           answered == Ans("login", sch, "/userlogin.html", status)
       IN  IF LoginResolves(status)
           THEN /\ xsrfToken' = env.loginXsrf
                /\ cookies' = LoginCookies(env.loginCookies)
                /\ IF ~LoginOk(status)
                   THEN /\ Return(Fail("Authentication failed"))
                        /\ log' = log \o <<answered>>
                        /\ UNCHANGED <<epIdx, useHttps>>
                   ELSE /\ log' = log \o <<answered,
                                           FirstAuthRequest(op, useHttps, cookies', IF Falsy(xsrfToken') THEN Undefined ELSE xsrfToken')>>
                        /\ pc' = IF op = "import" THEN "fetch" ELSE "action"
                        /\ epIdx' = IF op = "import" THEN 1 ELSE epIdx
                        /\ UNCHANGED <<result, useHttps>>
           ELSE IF LoginRetriesOverHttp(op)
                THEN IF sch = "https"
                     THEN /\ useHttps' = FALSE
                          /\ log' = log \o <<answered,
                                             Req("login", "http", "/userlogin.html",
                                                 TrackCookie(trackId), Undefined)>>
                          /\ UNCHANGED <<pc, result, xsrfToken, cookies, epIdx>>
                     ELSE /\ OuterCatch
                          /\ log' = log \o <<answered>>
                          /\ UNCHANGED <<xsrfToken, cookies, epIdx, useHttps>>
                ELSE /\ Return(Fail("Authentication failed"))
                     /\ log' = log \o <<answered>>
                     /\ UNCHANGED <<xsrfToken, cookies, epIdx, useHttps>>
    /\ UNCHANGED <<op, trackId, responses, args, env, renderer>>

XsrfHeader == IF Falsy(xsrfToken) THEN Undefined ELSE xsrfToken

\* import: one sub-resource GET of getDeviceData is answered (or fails)
Fetch ==
    /\ pc = "fetch"
    /\ op = "import"
    /\ LET ep == deviceEndpoints[epIdx]
           ok == ep \notin env.failSet
           answered == Ans("auth", Scheme(useHttps), ep, IF ok THEN 200 ELSE 0)
           resp == IF ok
                   THEN [e \in (DOMAIN responses) \cup {ep} |->
                            IF e = ep THEN ResponseData(ep, env) ELSE responses[e]]
                   ELSE responses
       IN  /\ responses' = resp
           /\ IF epIdx < Len(deviceEndpoints)
              THEN /\ epIdx' = epIdx + 1
                   /\ log' = log \o <<answered,
                                      Req("auth", Scheme(useHttps), deviceEndpoints[epIdx + 1],
                                          cookies, XsrfHeader)>>
                   /\ UNCHANGED <<pc, result>>
              ELSE /\ epIdx' = epIdx
                   /\ log' = log \o <<answered,
                                      Req("logout", Scheme(useHttps), "/logout", cookies, Undefined)>>
                   /\ pc' = "logout"
                   /\ result' = [success |-> TRUE, parameters |-> BuildParameters(args.ipAddress, resp)]
    /\ UNCHANGED <<op, trackId, xsrfToken, cookies, useHttps, args, env, renderer>>

\* what each handler returns when its authenticated request succeeded
Success(o) ==
    CASE o = "identify" -> [success |-> TRUE, duration |-> args.duration,
                            method |-> "official_identify_endpoint"]
      [] o = "edid" -> [success |-> TRUE, edidData |-> "edidData"]
      [] o = "streams" -> [success |-> TRUE, streams |-> "streams"]
      [] o = "getAdapters" -> [success |-> TRUE, networkAdapters |-> "networkData",
                               authSession |-> [cookies |-> cookies, xsrfToken |-> xsrfToken,
                                                useHttps |-> useHttps]]
      [] OTHER -> [success |-> TRUE, message |-> "Network adapter settings updated successfully"]

\* the statuses after which identify / update-network-adapters log out and report success
ActionAccepted(o, status) ==
    IF o = "identify" THEN status = 200
    ELSE IF o = "updateAdapters" THEN status = 200 \/ status = 204
    ELSE DefaultResolves(status)

\* identify, EDID, streams, network adapters: the authenticated request is answered (or fails)
Action(status) ==
    /\ pc = "action"
    /\ op \in AuthOps \ {"import"}
    /\ LET answered == Ans("auth", Scheme(useHttps), LastSend.path, status)
       IN  IF DefaultResolves(status) /\ ActionAccepted(op, status)
           THEN IF op \in {"identify", "updateAdapters"}
                THEN /\ log' = log \o <<answered,
                                        Req("logout", Scheme(useHttps), "/logout", cookies, Undefined)>>
                     /\ pc' = "logout"
                     /\ result' = Success(op)
                ELSE /\ log' = log \o <<answered>>
                     /\ Return(Success(op))
           ELSE /\ log' = log \o <<answered>>
                /\ Return(Fail("request failed"))
    /\ UNCHANGED <<op, trackId, xsrfToken, cookies, useHttps, epIdx, responses, args, env, renderer>>

\* a faulty logout: a failed logout GET reaches the outer catch block
LogoutMut(status) ==
    /\ pc = "logout"
    /\ log' = log \o <<Ans("logout", Scheme(useHttps), "/logout", status)>>
    /\ IF DefaultResolves(status) THEN pc' = "done" /\ UNCHANGED result ELSE OuterCatch
    /\ UNCHANGED <<op, trackId, xsrfToken, cookies, useHttps, epIdx, responses, args, env, renderer>>

\* the logout GET is answered (or fails); either way the handler returns its result
Logout(status) ==
    /\ pc = "logout"
    /\ log' = log \o <<Ans("logout", Scheme(useHttps), "/logout", status)>>
    /\ pc' = "done"
    /\ UNCHANGED <<op, trackId, xsrfToken, cookies, useHttps, epIdx, responses, result, args, env, renderer>>

----------------------------------------------------------------------------
(* connect-device *)

authEndpoints == <<"/cws/control/system/info", "/api/auth/login", "/auth", "/login">>

\* answers to the Basic-auth GETs; a connection error rejects the promise as 401 does
ConnectStatuses == {200, 204, 401}

\* response.status === 200
ConnectAccepts(status) == status = 200

\* how the device met by a connect call would answer the login handshake
ConnectEnvs ==
    {e \in Envs : /\ e.setCookie = SetCookie(<< <<"TRACKID", "=", "t2">> >>)
                  /\ e.loginStatus \in {200, 302, 401}
                  /\ e.loginXsrf = Undefined
                  /\ e.loginCookies = NoSetCookie}

BeginConnect(a, e) ==
    /\ op = "none"
    /\ op' = "connect"
    /\ args' = a
    /\ env' = e
    /\ trackId' = Null
    /\ xsrfToken' = Null
    /\ cookies' = EmptyStr
    /\ useHttps' = TRUE
    /\ epIdx' = 1
    /\ responses' = EmptyObj
    /\ result' = NoResult
    /\ log' = <<Req("basic", "https", authEndpoints[1], EmptyStr, Undefined)>>
    /\ pc' = "connect"

\* one Basic-auth GET of the endpoint loop is answered (or fails)
Connect(status) ==
    /\ pc = "connect"
    /\ op = "connect"
    /\ LET sch == LastSend.scheme
           answered == Ans("basic", sch, authEndpoints[epIdx], status)
       IN  IF DefaultResolves(status) /\ ConnectAccepts(status)
           THEN /\ log' = log \o <<answered>>
                /\ Return([success |-> TRUE])
                /\ UNCHANGED epIdx
           ELSE IF ~DefaultResolves(status) /\ sch = "https"
                THEN /\ log' = log \o <<answered,
                                        Req("basic", "http", authEndpoints[epIdx], EmptyStr, Undefined)>>
                     /\ UNCHANGED <<pc, result, epIdx>>
                ELSE IF epIdx < Len(authEndpoints)
                     THEN /\ epIdx' = epIdx + 1
                          /\ log' = log \o <<answered,
                                             Req("basic", "https", authEndpoints[epIdx + 1],
                                                 EmptyStr, Undefined)>>
                          /\ UNCHANGED <<pc, result>>
                     ELSE /\ log' = log \o <<answered>>
                          /\ Return(Fail("Authentication failed - invalid credentials or unreachable device"))
                          /\ UNCHANGED epIdx
    /\ UNCHANGED <<op, trackId, xsrfToken, cookies, useHttps, responses, args, env, renderer>>

NoArgs == [ipAddress |-> "", credentials |-> "", certOptions |-> "", duration |-> 0]

\* the handler is gone; its locals with it
Idle ==
    /\ op' = "none"
    /\ pc' = "idle"
    /\ trackId' = Null
    /\ xsrfToken' = Null
    /\ cookies' = EmptyStr
    /\ useHttps' = TRUE
    /\ epIdx' = 0
    /\ responses' = EmptyObj
    /\ log' = <<>>
    /\ args' = NoArgs
    /\ env' = NoEnv

----------------------------------------------------------------------------
(* The handlers, called over IPC *)

Durations == {10, 30}

DirectArgs(o) ==
    [ipAddress : Addresses, credentials : {"admin:pw1"}, certOptions : {"any_certificate"},
     duration : IF o = "identify" THEN Durations ELSE {30}]

\* a component invokes one of the session handlers; DeviceLocate.handleStartIdentify
\* shows the identify as running before it awaits the handler
StartOp(o, a, e) ==
    /\ Begin(o, a, e)
    /\ isIdentifying' = (o = "identify" \/ isIdentifying)
    /\ UNCHANGED <<svars, rvars, dvars, pvars, uvars, connects>>

\* a component invokes connect-device
StartConnect(a, e) ==
    /\ BeginConnect(a, e)
    /\ UNCHANGED renderer

\* the invoke promise resolves with the handler's result; handleStartIdentify resets
\* isIdentifying when the identify failed
Finish ==
    /\ pc = "done"
    /\ Idle
    /\ result' = NoResult
    /\ isIdentifying' = (isIdentifying /\ ~(op = "identify" /\ ~result.success))
    /\ UNCHANGED <<svars, rvars, dvars, pvars, uvars, connects>>

\* DeviceLocate.handleStopIdentify (and the local timer running out): local state only
handleStopIdentify ==
    /\ isIdentifying
    /\ isIdentifying' = FALSE
    /\ UNCHANGED <<hvars, svars, rvars, dvars, pvars, uvars, connects>>

InitHandler ==
    /\ op = "none"
    /\ pc = "idle"
    /\ trackId = Null
    /\ xsrfToken = Null
    /\ cookies = EmptyStr
    /\ useHttps = TRUE
    /\ epIdx = 0
    /\ responses = EmptyObj
    /\ result = NoResult
    /\ log = <<>>
    /\ args = NoArgs
    /\ env = NoEnv

InitService ==
    /\ connections = EmptyObj
    /\ credentials = EmptyObj
    /\ certificateOptions = EmptyObj
    /\ deviceParameters = EmptyObj
    /\ svcCall = [method |-> "none", ipAddress |-> ""]
    /\ svcResult = NoResult

InitRegistry ==
    /\ discoveredDevices = <<>>
    /\ objStatus = EmptyObj
    /\ isDiscovering = FALSE
    /\ discoveries = <<>>
    /\ cycles = <<>>
    /\ clock = 0
    /\ discoveryCallbacks = <<>>
    /\ notified = <<>>
    /\ delivered = EmptyObj
    /\ unsubscribed = {}
    /\ returned = [done |-> FALSE]

InitDedup ==
    /\ dedupIn = <<>>
    /\ dedupOut = [done |-> FALSE, devices |-> <<>>]

Unsettled == [done |-> FALSE, fulfilled |-> FALSE, value |-> <<>>, failed |-> {}]

InitProbe ==
    /\ transport = "none"
    /\ sock = "closed"
    /\ found = <<>>
    /\ seenIPs = {}
    /\ sends = 0
    /\ failures = {}
    /\ heard = {}
    /\ settled = Unsettled

\* editedSettings of a component that has loaded nothing: {}
NoSettings == [data |-> "{}", edits |-> {}]
NoCall == [name |-> "none", field |-> "", value |-> ""]
\* the local data a write may touch: the service's cache, the page's parameters,
\* networkData and editedSettings
Data == <<deviceParameters, pageParameters, shownNetworkData, editedSettings>>

InitComponents ==
    /\ pageParameters = <<>>
    /\ editValues = EmptyObj
    /\ shownNetworkData = <<>>
    /\ editedSettings = NoSettings
    /\ hasChanges = FALSE
    /\ uiCall = NoCall
    /\ atCall = Data
    /\ lastWrite = <<>>
    /\ isIdentifying = FALSE
    /\ connects = <<>>

Init == InitHandler /\ InitService /\ InitRegistry /\ InitDedup /\ InitProbe /\ InitComponents

Next ==
    \/ /\ op = "none"
       /\ \E o \in AuthOps : \E a \in DirectArgs(o) :
              \E e \in (IF o = "import" THEN ImportEnvs ELSE Envs) : StartOp(o, a, e)
    \/ /\ op = "none"
       /\ \E a \in DirectArgs("connect"), e \in ConnectEnvs : StartConnect(a, e)
    \/ \E st \in {0, 500, 200} : Track(st)
    \/ \E st \in {0, env.loginStatus} : Login(st)
    \/ Fetch
    \/ \E st \in {0, 200, 204, 400} : Action(st)
    \/ \E st \in {0, 200} : Logout(st)
    \/ \E st \in ConnectStatuses : Connect(st)
    \/ Finish
    \/ handleStopIdentify

\* the IPC handlers of the main process, one call at a time
Spec == Init /\ [][Next]_vars

----------------------------------------------------------------------------
(* DeviceConnectionService (renderer) *)

MapSet(m, k, v) == [x \in (DOMAIN m) \cup {k} |-> IF x = k THEN v ELSE m[x]]
MapDelete(m, k) == [x \in (DOMAIN m) \ {k} |-> m[x]]

\* status?.isConnected || false
isDeviceConnected(ip) == Has(connections, ip) /\ connections[ip].isConnected

\* what the service's import meets: every handshake behaviour, and a failing fetch
ServiceImportEnvs ==
    {e \in ImportEnvs : e.failSet \in {{}, {"/Device/DeviceInfo"}, EndpointSet}
                        /\ e.naLevel = "HostName" /\ e.shape = "bare"}

\* connectToDevice up to its await of window.electronAPI.connectDevice
SvcConnect(ip, c, o, e) ==
    /\ svcCall.method = "none"
    /\ certificateOptions' = MapSet(certificateOptions, ip, o)
    /\ BeginConnect([ipAddress |-> ip, credentials |-> c, certOptions |-> o, duration |-> 0], e)
    /\ svcCall' = [method |-> "connect", ipAddress |-> ip]
    /\ svcResult' = NoResult
    /\ UNCHANGED <<connections, credentials, deviceParameters, rvars, dvars, pvars, uvars, lvars>>

\* connectToDevice from the handler's result to its return
SvcConnectReturn ==
    /\ svcCall.method = "connect"
    /\ pc = "done"
    /\ IF result.success
       THEN /\ connections' = MapSet(connections, svcCall.ipAddress, [isConnected |-> TRUE])
            /\ credentials' = MapSet(credentials, svcCall.ipAddress, args.credentials)
            /\ svcResult' = [success |-> TRUE]
       ELSE /\ connections' = MapSet(connections, svcCall.ipAddress,
                                     [isConnected |-> FALSE, error |-> result.error])
            /\ credentials' = credentials
            /\ svcResult' = [success |-> FALSE, error |-> result.error]
    /\ svcCall' = [method |-> "none", ipAddress |-> ""]
    /\ Idle
    /\ result' = NoResult
    /\ UNCHANGED <<certificateOptions, deviceParameters, rvars, dvars, pvars, uvars, lvars>>

\* importDeviceParameters up to its await of window.electronAPI.importParameters,
\* or to its return when the device is not connected or has no credentials
SvcImport(ip, e) ==
    /\ svcCall.method = "none"
    /\ IF ~isDeviceConnected(ip)
       THEN /\ svcResult' = Fail("Device not connected. Please connect first.")
            /\ UNCHANGED <<hvars, svcCall>>
       ELSE IF ~Has(credentials, ip)
            THEN /\ svcResult' = Fail("No credentials found for device.")
                 /\ UNCHANGED <<hvars, svcCall>>
            ELSE /\ Begin("import",
                          [ipAddress |-> ip, credentials |-> credentials[ip],
                           certOptions |-> IF Has(certificateOptions, ip)
                                           THEN certificateOptions[ip] ELSE "any_certificate",
                           duration |-> 0], e)
                 /\ svcCall' = [method |-> "import", ipAddress |-> ip]
                 /\ svcResult' = NoResult
    /\ UNCHANGED <<connections, credentials, certificateOptions, deviceParameters, rvars, dvars, pvars, uvars, lvars>>

\* importDeviceParameters from the handler's result to its return
SvcImportReturn ==
    /\ svcCall.method = "import"
    /\ pc = "done"
    /\ IF result.success /\ Has(result, "parameters")
       THEN /\ deviceParameters' = MapSet(deviceParameters, svcCall.ipAddress, result.parameters)
            /\ svcResult' = [success |-> TRUE, parameters |-> result.parameters]
       ELSE /\ deviceParameters' = deviceParameters
            /\ svcResult' = Fail(IF Has(result, "error") THEN result.error
                                 ELSE "Failed to import parameters")
    /\ svcCall' = [method |-> "none", ipAddress |-> ""]
    /\ Idle
    /\ result' = NoResult
    /\ UNCHANGED <<connections, credentials, certificateOptions, rvars, dvars, pvars, uvars, lvars>>

\* a faulty disconnect: the credentials are deleted, the address stays marked as it was
SvcDisconnectMut(ip) ==
    /\ svcCall.method = "none"
    /\ credentials' = MapDelete(credentials, ip)
    /\ certificateOptions' = MapDelete(certificateOptions, ip)
    /\ UNCHANGED <<hvars, connections, deviceParameters, svcCall, svcResult, rvars, dvars, pvars, uvars, lvars>>

\* disconnectDevice
SvcDisconnect(ip) ==
    /\ svcCall.method = "none"
    /\ connections' = MapSet(connections, ip, [isConnected |-> FALSE])
    /\ credentials' = MapDelete(credentials, ip)
    /\ certificateOptions' = MapDelete(certificateOptions, ip)
    /\ UNCHANGED <<hvars, deviceParameters, svcCall, svcResult, rvars, dvars, pvars, uvars, lvars>>

NextService ==
    \/ \E ip \in Addresses, c \in Credentials, o \in CertOptions, e \in ConnectEnvs :
           SvcConnect(ip, c, o, e)
    \/ SvcConnectReturn
    \/ \E ip \in Addresses, e \in ServiceImportEnvs : SvcImport(ip, e)
    \/ SvcImportReturn
    \/ \E ip \in Addresses : SvcDisconnect(ip)
    \/ \E st \in ConnectStatuses : Connect(st)
    \/ \E st \in {0, 500, 200} : Track(st)
    \/ \E st \in {0, env.loginStatus} : Login(st)
    \/ Fetch
    \/ \E st \in {0, 200} : Logout(st)

\* the connection service of the renderer over the handlers it calls, one call at a time
SpecService == Init /\ [][NextService]_vars

----------------------------------------------------------------------------
(* Properties of the session handlers *)

Sends == {k \in 1..Len(log) : log[k].ev = "send"}
Recvs == {k \in 1..Len(log) : log[k].ev = "recv"}
LoginAnswers == {k \in Recvs : log[k].kind = "login"}
AuthSends == {k \in Sends : log[k].kind = "auth"}
LastLoginAnswer == log[CHOOSE k \in LoginAnswers : \A j \in LoginAnswers : j <= k]
\* the handler passed its test of loginResponse.status
Authenticated == LoginAnswers # {} /\ LastLoginAnswer.status \in {200, 302}

\* the value of the cookie named TRACKID in a Set-Cookie header, as the device issued it
IssuedTrackId(h) ==
    LET named == {i \in 1..Len(h.arr) : SplitHead(h.arr[i], "=") = <<"TRACKID">>
                                        /\ Includes(h.arr[i], "=")}
    IN  IF h.present /\ named # {}
        THEN SplitHead(SplitRest(h.arr[CHOOSE i \in named : TRUE], "="), ";")
        ELSE Null

\* C1: once the tracking GET failed over https and succeeded over http, every later
\* request of the operation (login POST, authenticated requests, logout) goes over http
C1_FallbackIsSticky ==
    \A i \in Recvs :
        ( /\ op \in AuthOps
          /\ log[i].kind = "track" /\ log[i].scheme = "http" /\ log[i].status = 200
          /\ \E j \in Recvs : j < i /\ log[j].kind = "track" /\ log[j].scheme = "https"
                              /\ ~DefaultResolves(log[j].status) )
        => \A k \in Sends : k > i => log[k].scheme = "http"

\* C2: the handshake runs in order and one request at a time: no request is sent while
\* another is unanswered, the login POST follows a tracking GET answered with a TRACKID
\* and carries that TRACKID as its cookie, and every authenticated request follows an
\* answered login POST
C2_HandshakeInOrder ==
    op \in AuthOps =>
        /\ \A k \in Sends :
               Cardinality({j \in Sends : j < k}) = Cardinality({j \in Recvs : j < k})
        /\ Cardinality(Sends) - Cardinality(Recvs) \in {0, 1}
        /\ \A k \in Sends : log[k].kind = "login" =>
               /\ \E j \in Recvs : j < k /\ log[j].kind = "track" /\ log[j].status = 200
               /\ ~Falsy(IssuedTrackId(env.setCookie))
               /\ log[k].cookie = <<"TRACKID", "=">> \o IssuedTrackId(env.setCookie)
        /\ \A k \in Sends : log[k].kind \in {"auth", "logout"} =>
               \E j \in Recvs : j < k /\ log[j].kind = "login" /\ log[j].status > 0
        /\ \A k \in Sends : log[k].kind = "track" =>
               \A j \in 1..k : log[j].kind = "track"

\* C2 witness: an import that has logged in and is fetching its third sub-resource
C2_Witness == op = "import" /\ pc = "fetch" /\ epIdx = 3

\* authenticated requests are sent only after a login POST answered 200 or 302
AuthOnlyAfterLoginOk ==
    \A k \in AuthSends :
        LET before == {j \in LoginAnswers : j < k}
        IN  before # {} /\ log[CHOOSE j \in before : \A i \in before : i <= j].status \in {200, 302}

\* C3 as claimed: authenticated requests only after a login answered 200 or 302, and every
\* other login outcome ends the operation in a failed result with no authenticated request
C3_LoginGate ==
    op \in AuthOps =>
        /\ AuthOnlyAfterLoginOk
        /\ (pc = "done" /\ LoginAnswers # {} /\ ~Authenticated)
               => (~result.success /\ AuthSends = {})

\* C3 amended: as C3, except that an import whose login POST was rejected by axios (no
\* answer, or a status of 500 and above, on the http retry) returns the mock-data result
C3_LoginGateAmended ==
    op \in AuthOps =>
        /\ AuthOnlyAfterLoginOk
        /\ (pc = "done" /\ LoginAnswers # {} /\ ~Authenticated)
               => /\ AuthSends = {}
                  /\ IF op = "import" /\ ~LoginResolves(LastLoginAnswer.status)
                     THEN result.success /\ Flag(result, "isMockData")
                     ELSE ~result.success

\* C3 witness: an update whose login was answered 401 has ended in a failure
C3_Witness ==
    /\ op = "updateAdapters" /\ pc = "done"
    /\ LoginAnswers # {} /\ LastLoginAnswer.status = 401
    /\ ~result.success

\* C5: an import whose initial authentication fails returns the synthetic parameter set,
\* flagged, and never success:false
C5_ImportFallsBackToSynthetic ==
    (op = "import" /\ pc = "done" /\ ~Authenticated)
        => (result.success /\ Flag(result, "isMockData"))

\* the fields that no DeviceInfo answer feeds carry what the device holds
OtherFieldsLive(p) ==
    /\ p.igmpVersion = LivePayload("/Device/NetworkAdapters", env).IgmpVersion
    /\ p.mode = LivePayload("/Device/StreamingVideo", env).Mode
    /\ p.status = LivePayload("/Device/StreamingVideo", env).Status
    /\ p.streamLocation = LivePayload("/Device/Network", env).StreamLocation
    /\ p.usbMode = LivePayload("/Device/USB", env).Mode
    /\ p.ledsEnabled = LivePayload("/Device/DeviceSpecific", env).LedsEnabled
    /\ p.edidVersion = LivePayload("/Device/EdidMgmnt", env).Version
    /\ p.streamCount = Cardinality(DOMAIN LivePayload("/Device/DiscoveredStreams", env).Streams)

OnlyDeviceInfoFailed ==
    op = "import" /\ pc = "done" /\ Authenticated /\ env.failSet = {"/Device/DeviceInfo"}

----------------------------------------------------------------------------
(* Properties of the connection service *)

\* C4: connect reports the outcome of the cookie/token login: with a device that issues
\* a tracking cookie, connect succeeds when the device answers the login POST with 200 or
\* 302 and fails when it answers 401
C4_ConnectReportsLogin ==
    (svcCall.method = "connect" /\ pc = "done" /\ ~Falsy(IssuedTrackId(env.setCookie)))
        => /\ env.loginStatus \in {200, 302} => result.success
           /\ env.loginStatus = 401 => ~result.success

\* a connect-device call never sends anything but Basic-auth GETs
ConnectSendsOnlyBasic ==
    op = "connect" => \A k \in Sends : log[k].kind = "basic"

\* C6: whenever the service's import result carries the synthetic parameter set, it
\* carries the synthetic flag
C6_SyntheticIsFlagged ==
    \A ip \in Addresses :
        (Has(svcResult, "parameters") /\ svcResult.parameters = MockParameters(ip))
            => Flag(svcResult, "isMockData")

----------------------------------------------------------------------------
(* DeviceDiscoveryService (renderer): deduplication *)

RegAddresses == {"10.0.0.5", "10.0.0.6"}
\* what produced a device object: one of the probes of the main process, or scanDeviceAtIP
Probes == {"mdns", "crestron"}

\* longest candidate list handed to deduplicateDevices
MaxCands == 3
\* latest last-seen time of a candidate
MaxStamp == 2

\* position of the entry for ip in a list of devices, 0 if none
IndexOfAddress(devs, ip) ==
    IF \E i \in 1..Len(devs) : devs[i].ipAddress = ip
    THEN CHOOSE i \in 1..Len(devs) : devs[i].ipAddress = ip
    ELSE 0

\* Map.set on the insertion-ordered values of a map keyed by ipAddress
SetDevice(devs, d) ==
    IF IndexOfAddress(devs, d.ipAddress) = 0
    THEN Append(devs, d)
    ELSE [devs EXCEPT ![IndexOfAddress(devs, d.ipAddress)] = d]

\* Map.delete
DeleteDevice(devs, ip) ==
    IF IndexOfAddress(devs, ip) = 0 THEN devs
    ELSE SubSeq(devs, 1, IndexOfAddress(devs, ip) - 1)
         \o SubSeq(devs, IndexOfAddress(devs, ip) + 1, Len(devs))

\* a faulty comparison: the older candidate replaces the newer
ReplacesMut(device, existing) == device.lastSeen < existing.lastSeen
\* device.lastSeen > existing.lastSeen
Replaces(device, existing) == device.lastSeen > existing.lastSeen

RECURSIVE DedupInto(_, _)
\* the forEach of deduplicateDevices over the rest of the list
DedupInto(deviceMap, devices) ==
    IF devices = <<>> THEN deviceMap
    ELSE LET device == Head(devices)
             at == IndexOfAddress(deviceMap, device.ipAddress)
         IN  IF at = 0 \/ Replaces(device, deviceMap[at])
             THEN DedupInto(SetDevice(deviceMap, device), Tail(devices))
             ELSE DedupInto(deviceMap, Tail(devices))

deduplicateDevices(devices) == DedupInto(<<>>, devices)

Candidates == [ipAddress : RegAddresses, src : Probes, lastSeen : 0..MaxStamp]

RECURSIVE SeqsUpTo(_, _)
SeqsUpTo(S, n) ==
    IF n = 0 THEN {<<>>}
    ELSE SeqsUpTo(S, n - 1) \cup {Append(s, x) : s \in {t \in SeqsUpTo(S, n - 1) : Len(t) = n - 1}, x \in S}

\* a call of deduplicateDevices with any list of candidates, nothing else going on
InitDedupCall ==
    /\ InitHandler /\ InitService /\ InitRegistry /\ InitProbe /\ InitComponents
    /\ dedupIn \in SeqsUpTo(Candidates, MaxCands)
    /\ dedupOut = [done |-> FALSE, devices |-> <<>>]

\* deduplicateDevices is applied to the list
Dedup ==
    /\ ~dedupOut.done
    /\ dedupOut' = [done |-> TRUE, devices |-> deduplicateDevices(dedupIn)]
    /\ UNCHANGED <<dedupIn, hvars, svars, rvars, pvars, uvars, lvars>>

\* deduplicateDevices on every list of candidates within the bounds
SpecDedup == InitDedupCall /\ [][Dedup]_vars

\* C8: deduplicateDevices yields exactly one entry per distinct address of its input, and
\* that entry is one of the candidates, with the greatest last-seen among those sharing it
C8_OnePerAddressLatest ==
    dedupOut.done =>
        LET out == dedupOut.devices
            addrsIn == {dedupIn[i].ipAddress : i \in 1..Len(dedupIn)}
        IN  /\ \A ip \in addrsIn : Cardinality({j \in 1..Len(out) : out[j].ipAddress = ip}) = 1
            /\ \A j \in 1..Len(out) :
                   /\ \E i \in 1..Len(dedupIn) : dedupIn[i] = out[j]
                   /\ \A i \in 1..Len(dedupIn) :
                          dedupIn[i].ipAddress = out[j].ipAddress
                              => dedupIn[i].lastSeen <= out[j].lastSeen

\* C8 witness: three candidates at one address with different last-seen times, the
\* latest in the middle, were merged into one entry
C8_Witness ==
    /\ dedupOut.done
    /\ Len(dedupIn) = 3
    /\ \A i \in 1..3 : dedupIn[i].ipAddress = "10.0.0.5"
    /\ dedupIn[1].lastSeen = 1 /\ dedupIn[2].lastSeen = 2 /\ dedupIn[3].lastSeen = 0
    /\ Len(dedupOut.devices) = 1
    /\ dedupOut.devices[1] = dedupIn[2]

----------------------------------------------------------------------------
(* DeviceDiscoveryService (renderer): the registry, startDiscovery and the refresh timer *)

\* device objects created in one run; every creation reads a later clock (new Date())
MaxClock == 3
\* startDiscovery calls in flight together
MaxDiscoveries == 2
\* refresh cycles in flight together
MaxCycles == 2

\* the order in which startDiscovery concatenates the lists of its probes
ProbeOrder == <<"mdns", "crestron">>

\* a device object: parseNVXDeviceInfo, or a record pushed by a probe of the main process
NewDevice(ip, src) == [ipAddress |-> ip, src |-> src, lastSeen |-> clock]

Range(list) == {list[i] : i \in 1..Len(list)}

\* the device objects some list of the service still refers to
Referenced(devs, disc, cyc, held) ==
    Range(devs) \cup UNION {Range(disc[id].cands) : id \in DOMAIN disc}
                \cup UNION {Range(cyc[c]) : c \in DOMAIN cyc}
                \cup UNION {Range(held[r]) : r \in DOMAIN held}

\* the status of every object still referred to; st gives the one that has just been assigned
Statuses(st) ==
    [k \in Referenced(discoveredDevices', discoveries', cycles', delivered') |->
        IF k \in DOMAIN st THEN st[k] ELSE objStatus[k]]

None == [k \in {} |-> "online"]

Created(d) == [k \in {d} |-> "online"]

Tick ==
    /\ clock < MaxClock
    /\ clock' = clock + 1

\* the calls in flight are listed in the order they began; one that ends leaves the list
Without(calls, id) == SubSeq(calls, 1, id - 1) \o SubSeq(calls, id + 1, Len(calls))

RECURSIVE SetAll(_, _)
\* uniqueDevices.forEach(device => discoveredDevices.set(device.ipAddress, device))
SetAll(devs, list) ==
    IF list = <<>> THEN devs ELSE SetAll(SetDevice(devs, Head(list)), Tail(list))

RECURSIVE AllDevices(_, _)
\* allDevices: the fulfilled probe results, in the order the probes were pushed
AllDevices(cands, order) ==
    IF order = <<>> THEN <<>>
    ELSE SelectSeq(cands, LAMBDA d : d.src = Head(order)) \o AllDevices(cands, Tail(order))

\* notifyDiscoveryCallbacks: every entry of discoveryCallbacks is called, in order, with
\* Array.from(discoveredDevices.values()); the callbacks return normally
NotifyCallbacks ==
    /\ notified' = discoveryCallbacks
    /\ delivered' = [r \in DOMAIN delivered \cup Range(discoveryCallbacks) |->
                        IF r \in Range(discoveryCallbacks) THEN discoveredDevices' ELSE delivered[r]]
    /\ UNCHANGED <<discoveryCallbacks, unsubscribed>>

\* no startDiscovery call returns in this step
NoReturn == returned' = [done |-> FALSE]

\* a notification by an operation other than startDiscovery
Notify == NotifyCallbacks /\ NoReturn

\* a step that calls no callback
Quiet ==
    /\ notified' = <<>>
    /\ NoReturn
    /\ UNCHANGED <<discoveryCallbacks, delivered, unsubscribed>>

\* startDiscovery up to its await
StartDiscovery ==
    /\ Len(discoveries) < MaxDiscoveries
    /\ isDiscovering' = TRUE
    /\ discoveries' = Append(discoveries, [cands |-> <<>>, rejected |-> {}])
    /\ Quiet
    /\ UNCHANGED <<discoveredDevices, objStatus, cycles, clock, hvars, svars, dvars, pvars, uvars, lvars>>

\* a probe of discovery id hears from ip; a probe lists an address once
ProbeSights(id, ip, src) ==
    /\ id \in DOMAIN discoveries
    /\ src \notin discoveries[id].rejected
    /\ ~\E i \in 1..Len(discoveries[id].cands) :
           discoveries[id].cands[i].ipAddress = ip /\ discoveries[id].cands[i].src = src
    /\ Tick
    /\ discoveries' = [discoveries EXCEPT ![id].cands = Append(@, NewDevice(ip, src))]
    /\ Quiet
    /\ UNCHANGED <<discoveredDevices, isDiscovering, cycles, hvars, svars, dvars, pvars, uvars, lvars>>
    /\ objStatus' = Statuses(Created(NewDevice(ip, src)))

\* a probe of discovery id rejects: Promise.allSettled reports it rejected, or the wrapper
\* of an IPC probe catches the rejection and resolves with the empty list
ProbeRejects(id, src) ==
    /\ id \in DOMAIN discoveries
    /\ src \notin discoveries[id].rejected
    /\ discoveries' = [discoveries EXCEPT ![id].rejected = @ \cup {src}]
    /\ Quiet
    /\ UNCHANGED <<discoveredDevices, objStatus, isDiscovering, cycles, clock, hvars, svars, dvars, pvars, uvars, lvars>>

\* a faulty merge: the devices of rejected probes are kept
FulfilledMut(d) == d.cands
\* the lists of the probes that fulfilled
Fulfilled(d) == SelectSeq(d.cands, LAMBDA c : c.src \notin d.rejected)

\* uniqueDevices
UniqueDevices(d) == deduplicateDevices(AllDevices(Fulfilled(d), ProbeOrder))

\* startDiscovery after its await: merge, write to the registry, notify, finally
DiscoveryComplete(id) ==
    /\ id \in DOMAIN discoveries
    /\ discoveredDevices' = SetAll(discoveredDevices, UniqueDevices(discoveries[id]))
    /\ isDiscovering' = FALSE
    /\ returned' = [done |-> TRUE, fulfilled |-> TRUE, devices |-> UniqueDevices(discoveries[id]),
                    heard |-> discoveries[id].cands, rejected |-> discoveries[id].rejected]
    /\ discoveries' = Without(discoveries, id)
    /\ NotifyCallbacks
    /\ UNCHANGED <<cycles, clock, hvars, svars, dvars, pvars, uvars, lvars>>
    /\ objStatus' = Statuses(None)

\* the interval callback up to its first await
RefreshStart ==
    /\ ~isDiscovering
    /\ Len(discoveredDevices) > 0
    /\ Len(cycles) < MaxCycles
    /\ cycles' = Append(cycles, discoveredDevices)
    /\ Quiet
    /\ UNCHANGED <<discoveredDevices, objStatus, isDiscovering, discoveries, clock,
                   hvars, svars, dvars, pvars, uvars, lvars>>

\* the loop moves to its next device, or ends and notifies
Advance(c) ==
    /\ cycles' = IF Len(cycles[c]) = 1 THEN Without(cycles, c) ELSE [cycles EXCEPT ![c] = Tail(@)]
    /\ IF Len(cycles[c]) = 1 THEN Notify ELSE Quiet

\* the device the loop of cycle c is at
Probed(c) == Head(cycles[c])

\* scanDeviceAtIP returned a device
RefreshProbeOk(c) ==
    /\ c \in DOMAIN cycles
    /\ Tick
    /\ discoveredDevices' = SetDevice(discoveredDevices, NewDevice(Probed(c).ipAddress, "scan"))
    /\ Advance(c)
    /\ UNCHANGED <<isDiscovering, discoveries, hvars, svars, dvars, pvars, uvars, lvars>>
    /\ objStatus' = Statuses(Created(NewDevice(Probed(c).ipAddress, "scan")))

\* scanDeviceAtIP returned null
RefreshProbeFail(c) ==
    /\ c \in DOMAIN cycles
    /\ discoveredDevices' = SetDevice(discoveredDevices, Probed(c))
    /\ Advance(c)
    /\ UNCHANGED <<isDiscovering, discoveries, clock, hvars, svars, dvars, pvars, uvars, lvars>>
    /\ objStatus' = Statuses([k \in {Probed(c)} |-> "offline"])

removeDevice(ip) ==
    /\ discoveredDevices' = DeleteDevice(discoveredDevices, ip)
    /\ Notify
    /\ UNCHANGED <<isDiscovering, discoveries, cycles, clock, hvars, svars, dvars, pvars, uvars, lvars>>
    /\ objStatus' = Statuses(None)

clearDevices ==
    /\ discoveredDevices' = <<>>
    /\ Notify
    /\ UNCHANGED <<isDiscovering, discoveries, cycles, clock, hvars, svars, dvars, pvars, uvars, lvars>>
    /\ objStatus' = Statuses(None)

NextRegistry ==
    \/ StartDiscovery
    \/ \E id \in 1..MaxDiscoveries, ip \in RegAddresses, src \in Probes : ProbeSights(id, ip, src)
    \/ \E id \in 1..MaxDiscoveries : DiscoveryComplete(id)
    \/ RefreshStart
    \/ \E c \in 1..MaxCycles : RefreshProbeOk(c)
    \/ \E c \in 1..MaxCycles : RefreshProbeFail(c)
    \/ \E ip \in RegAddresses : removeDevice(ip)
    \/ clearDevices

\* the discovery service on its own: discoveries, refresh cycles and removals interleaved
SpecRegistry == Init /\ [][NextRegistry]_vars

RegistryAddresses(devs) == {devs[i].ipAddress : i \in 1..Len(devs)}

RecordAt(devs, ip) == devs[IndexOfAddress(devs, ip)]

OnePerAddress(devs) ==
    \A i, j \in 1..Len(devs) : devs[i].ipAddress = devs[j].ipAddress => i = j

\* C9: the registry holds at most one record per address, and a write carrying an older
\* last-seen never replaces a newer record of the same address
C9_LatestWriteWins ==
    [][/\ OnePerAddress(discoveredDevices')
       /\ \A ip \in RegistryAddresses(discoveredDevices) \cap RegistryAddresses(discoveredDevices') :
              RecordAt(discoveredDevices', ip).lastSeen >= RecordAt(discoveredDevices, ip).lastSeen]_vars

\* the part of C9 the code does keep
C9_OnePerAddress == OnePerAddress(discoveredDevices)

\* C10: only removeDevice and clearDevices take an address out of the registry, and a
\* known device that fails its re-probe keeps its record, with status offline
C10_RefreshKeepsRecord ==
    [][/\ RegistryAddresses(discoveredDevices) \subseteq RegistryAddresses(discoveredDevices')
          \/ clearDevices
          \/ \E ip \in RegAddresses : removeDevice(ip)
       /\ \A c \in DOMAIN cycles :
              (RefreshProbeFail(c) /\ Probed(c).ipAddress \in RegistryAddresses(discoveredDevices))
                  => /\ RecordAt(discoveredDevices', Probed(c).ipAddress)
                          = RecordAt(discoveredDevices, Probed(c).ipAddress)
                     /\ objStatus'[RecordAt(discoveredDevices', Probed(c).ipAddress)] = "offline"]_vars

\* the part of C10 the code does keep: no merge and no refresh removes an address
C10_OnlyRemovalsRemove ==
    [][\/ RegistryAddresses(discoveredDevices) \subseteq RegistryAddresses(discoveredDevices')
       \/ clearDevices
       \/ \E ip \in RegAddresses : removeDevice(ip)]_vars

----------------------------------------------------------------------------
(* DeviceDiscoveryService (renderer): subscribers and callers *)

\* functions passed to onDevicesDiscovered
Callbacks == {"cb1", "cb2"}
\* longest discoveryCallbacks
MaxSubscriptions == 2

\* discoveryCallbacks.indexOf(callback), counted from 1; 0 when absent
IndexOfCallback(list, cb) ==
    IF \E i \in 1..Len(list) : list[i] = cb
    THEN CHOOSE i \in 1..Len(list) : list[i] = cb /\ \A j \in 1..(i - 1) : list[j] # cb
    ELSE 0

\* discoveryCallbacks.splice(index, 1)
Splice(list, index) == SubSeq(list, 1, index - 1) \o SubSeq(list, index + 1, Len(list))

onDevicesDiscovered(cb) ==
    /\ Len(discoveryCallbacks) < MaxSubscriptions
    /\ discoveryCallbacks' = Append(discoveryCallbacks, cb)
    /\ unsubscribed' = unsubscribed \ {cb}
    /\ notified' = <<>>
    /\ NoReturn
    /\ UNCHANGED <<delivered, discoveredDevices, objStatus, isDiscovering, discoveries, cycles,
                   clock, hvars, svars, dvars, pvars, uvars, lvars>>

removeDiscoveryCallback(cb) ==
    /\ discoveryCallbacks' =
           IF IndexOfCallback(discoveryCallbacks, cb) > 0
           THEN Splice(discoveryCallbacks, IndexOfCallback(discoveryCallbacks, cb))
           ELSE discoveryCallbacks
    /\ unsubscribed' = unsubscribed \cup {cb}
    /\ notified' = <<>>
    /\ NoReturn
    /\ UNCHANGED <<delivered, discoveredDevices, objStatus, isDiscovering, discoveries, cycles,
                   clock, hvars, svars, dvars, pvars, uvars, lvars>>

\* the devices that answer probes while subscribers are followed
SubscriberAddresses == {"10.0.0.5"}

\* startDiscovery called while no discovery and no refresh cycle is in flight
DiscoverAlone == Len(discoveries) = 0 /\ Len(cycles) = 0 /\ StartDiscovery

\* the timer fires while no refresh cycle is in flight
RefreshAlone == Len(cycles) = 0 /\ RefreshStart

\* discoveries, refresh cycles and removals, one at a time
NextSequential ==
    \/ DiscoverAlone
    \/ \E id \in 1..MaxDiscoveries, ip \in SubscriberAddresses, src \in Probes : ProbeSights(id, ip, src)
    \/ \E id \in 1..MaxDiscoveries : DiscoveryComplete(id)
    \/ RefreshAlone
    \/ \E c \in 1..MaxCycles : RefreshProbeOk(c)
    \/ \E c \in 1..MaxCycles : RefreshProbeFail(c)
    \/ \E ip \in RegAddresses : removeDevice(ip)
    \/ clearDevices

\* a faulty addDevice: a device that was found is stored and the subscribers are told
addDeviceMut(ip, hit) ==
    /\ returned' = [done |-> FALSE, probed |-> IF hit THEN <<NewDevice(ip, "scan")>> ELSE <<>>]
    /\ discoveredDevices' = IF hit THEN SetDevice(discoveredDevices, NewDevice(ip, "scan"))
                            ELSE discoveredDevices
    /\ notified' = discoveryCallbacks
    /\ delivered' = [r \in DOMAIN delivered \cup Range(discoveryCallbacks) |->
                        IF r \in Range(discoveryCallbacks) THEN discoveredDevices' ELSE delivered[r]]
    /\ UNCHANGED <<discoveryCallbacks, unsubscribed, isDiscovering, discoveries, cycles, clock,
                   hvars, svars, dvars, pvars, uvars, lvars>>
    /\ objStatus' = Statuses(IF hit THEN Created(NewDevice(ip, "scan")) ELSE None)

\* addDevice, from the call to its return: scanDeviceAtIP found a device at ip (hit) or
\* returned null; the object is handed to the caller only
addDevice(ip, hit) ==
    /\ returned' = [done |-> FALSE, probed |-> IF hit THEN <<NewDevice(ip, "scan")>> ELSE <<>>]
    /\ notified' = <<>>
    /\ UNCHANGED <<discoveryCallbacks, delivered, unsubscribed, discoveredDevices, objStatus,
                   isDiscovering, discoveries, cycles, clock, hvars, svars, dvars, pvars, uvars, lvars>>

NextSubscribers ==
    \/ \E cb \in Callbacks : onDevicesDiscovered(cb)
    \/ \E cb \in Callbacks : removeDiscoveryCallback(cb)
    \/ NextSequential

\* the discovery service with its subscribers; discoveries and refresh cycles one at a time
SpecSubscribers == Init /\ [][NextSubscribers]_vars

\* a step that ends a merge or a refresh cycle, or removes devices: the service notifies
NotifyingStep ==
    \/ \E id \in DOMAIN discoveries : DiscoveryComplete(id)
    \/ \E c \in DOMAIN cycles : Len(cycles[c]) = 1 /\ (RefreshProbeOk(c) \/ RefreshProbeFail(c))
    \/ \E ip \in RegAddresses : removeDevice(ip)
    \/ clearDevices

\* C11: removing a callback that is not subscribed changes nothing; a callback is not
\* called once it was unsubscribed; every other subscriber is called with the full
\* current list after each merge and each refresh cycle
C11_UnsubscribeIsFinal ==
    [][/\ \A cb \in Callbacks :
              (removeDiscoveryCallback(cb) /\ IndexOfCallback(discoveryCallbacks, cb) = 0)
                  => discoveryCallbacks' = discoveryCallbacks
       /\ \A cb \in unsubscribed' : cb \notin Range(notified')
       /\ NotifyingStep =>
              \A cb \in Range(discoveryCallbacks) \ unsubscribed :
                  cb \in Range(notified') /\ delivered'[cb] = discoveredDevices']_vars

\* what does hold: a callback subscribed once and then removed is not called again
C11_SingleSubscription ==
    [][\A cb \in Callbacks :
           removeDiscoveryCallback(cb)
           /\ Cardinality({i \in 1..Len(discoveryCallbacks) : discoveryCallbacks[i] = cb}) <= 1
               => cb \notin Range(discoveryCallbacks')]_vars


\* code outside the service that calls getDiscoveredDevices
Callers == {"caller"}

\* getDiscoveredDevices: Array.from(discoveredDevices.values()) handed to the caller
getDiscoveredDevices(r) ==
    /\ delivered' = [x \in DOMAIN delivered \cup {r} |->
                        IF x = r THEN discoveredDevices ELSE delivered[x]]
    /\ notified' = <<>>
    /\ NoReturn
    /\ UNCHANGED <<discoveryCallbacks, unsubscribed, discoveredDevices, isDiscovering,
                   discoveries, cycles, clock, hvars, svars, dvars, pvars, uvars, lvars>>
    /\ objStatus' = Statuses(None)

\* a receiver assigns the status field of the i-th record of the list it was handed
ReceiverMarks(r, i) ==
    /\ r \in DOMAIN delivered
    /\ i \in 1..Len(delivered[r])
    /\ objStatus[delivered[r][i]] # "unknown"
    /\ notified' = <<>>
    /\ NoReturn
    /\ UNCHANGED <<discoveryCallbacks, unsubscribed, delivered, discoveredDevices, isDiscovering,
                   discoveries, cycles, clock, hvars, svars, dvars, pvars, uvars, lvars>>
    /\ objStatus' = Statuses([k \in {delivered[r][i]} |-> "unknown"])

\* the component subscribes its callback when it mounts
SubscribeFirst == Len(discoveryCallbacks) = 0 /\ onDevicesDiscovered("cb1")

NextCallers ==
    \/ SubscribeFirst
    \/ NextSequential
    \/ \E r \in Callers : getDiscoveredDevices(r)
    \/ \E r \in Callbacks \cup Callers, i \in 1..Cardinality(RegAddresses) : ReceiverMarks(r, i)

\* the discovery service with one subscriber and a caller of getDiscoveredDevices
SpecCallers == Init /\ [][NextCallers]_vars

\* the lists handed out are fresh arrays: no registry operation changes their elements
C12_ListsAreCopies ==
    [][\A r \in DOMAIN delivered :
           (r \in DOMAIN delivered' /\ delivered'[r] # delivered[r])
               => \/ r \in Range(notified')
                  \/ \E c \in Callers : getDiscoveredDevices(c)]_vars

\* C12: what was handed to a callback or returned by getDiscoveredDevices is a copy: no
\* registry operation changes a record already delivered, and no change a receiver makes
\* to a delivered record changes the record the registry stores
C12_DeliveredAreCopies ==
    [][IF \E r \in DOMAIN delivered, i \in 1..Cardinality(RegAddresses) : ReceiverMarks(r, i)
       THEN \A k \in Range(discoveredDevices) : objStatus'[k] = objStatus[k]
       ELSE \A r \in DOMAIN delivered :
                delivered'[r] = delivered[r]
                    => \A k \in Range(delivered[r]) : objStatus'[k] = objStatus[k]]_vars


----------------------------------------------------------------------------
(* startDiscovery and its probes *)

NextDiscovery ==
    \/ DiscoverAlone
    \/ \E id \in 1..MaxDiscoveries, ip \in RegAddresses, src \in Probes : ProbeSights(id, ip, src)
    \/ \E id \in 1..MaxDiscoveries, src \in Probes : ProbeRejects(id, src)
    \/ \E id \in 1..MaxDiscoveries : DiscoveryComplete(id)

\* startDiscovery calls, one at a time, whose probes hear devices or reject; what a call
\* returns is built from the lists of its own probes
SpecDiscovery == Init /\ [][NextDiscovery]_vars

\* the devices listed by the probes of the returned call that fulfilled
HeardByFulfilled == {c \in Range(returned.heard) : c.src \notin returned.rejected}

\* C13: whichever probes reject or hear nothing, startDiscovery fulfils, and its result
\* holds one device per address heard by the probes that fulfilled, each taken from
\* their lists, and nothing else
C13_DiscoverySurvivesProbes ==
    returned.done =>
        /\ returned.fulfilled
        /\ OnePerAddress(returned.devices)
        /\ Range(returned.devices) \subseteq HeardByFulfilled
        /\ RegistryAddresses(returned.devices) = {c.ipAddress : c \in HeardByFulfilled}

\* C13 witness: a call returned a device although one of its probes, which had heard a
\* device too, rejected
C13_Witness ==
    /\ returned.done
    /\ returned.rejected = {"crestron"}
    /\ \E c \in Range(returned.heard) : c.src = "crestron"
    /\ Len(returned.devices) = 1
    /\ returned.devices[1].src = "mdns"

----------------------------------------------------------------------------
(* Main process: the transport probes behind discover-mdns, discover-ssdp and *)
(* discover-crestron *)

Transports == {"mdns", "ssdp", "crestron"}

\* the datagrams one call is followed through
MaxMessages == 2

\* strings are sequences of atoms; the product prefix is one atom
NVX == "DM-NVX"

RECURSIVE TrimStart(_)
TrimStart(s) == IF s # <<>> /\ Head(s) = " " THEN TrimStart(Tail(s)) ELSE s
RECURSIVE TrimEnd(_)
TrimEnd(s) == IF s # <<>> /\ s[Len(s)] = " " THEN TrimEnd(SubSeq(s, 1, Len(s) - 1)) ELSE s
Trim(s) == TrimEnd(TrimStart(s))

\* a faulty test: the prefix may stand anywhere in the model
StartsWithMut(s, prefix) == Includes(s, prefix)
StartsWith(s, prefix) == s # <<>> /\ Head(s) = prefix

\* extractModelAndVersion: the model is what precedes the first bracket, trimmed
extractModelAndVersion(description) ==
    IF description = <<>> THEN [model |-> <<>>, skip |-> TRUE]
    ELSE LET model == Trim(SplitHead(description, "["))
         IN  IF ~StartsWith(model, NVX) THEN [model |-> <<>>, skip |-> TRUE]
             ELSE [model |-> model, skip |-> FALSE]

\* data.slice(10) split on null bytes, the empty parts dropped
Parts(fields) == SelectSeq(fields, LAMBDA f : f # <<>>)
Part(parts, i) == IF i <= Len(parts) THEN parts[i] ELSE <<>>

\* parseDeviceInfo: the device of a vendor response in a list of one, the empty list for null
parseDeviceInfo(fields, address) ==
    LET description == Part(Parts(fields), 2)
        x == extractModelAndVersion(description)
    IN  IF x.skip \/ ~StartsWith(x.model, NVX) THEN <<>>
        ELSE <<[ipAddress |-> address, model |-> x.model, description |-> description]>>

\* descriptions a vendor response may carry
Descriptions ==
    { <<NVX, "-384", " ", "[", "v7.3", "]">>,
      <<" ", NVX, "-E30">>,
      <<"DMPS3", "/", NVX, " ", "[", "v1", "]">>,
      <<"[", NVX, "]">>,
      <<"dm-nvx", "-350">> }

\* hostname, description and device id of a vendor response; any of them may be empty
CrestronFields == {<<h, d, i>> : h \in {<<>>, <<"host">>}, d \in Descriptions \cup {<<>>}, i \in {<<"@E-1">>}}

\* a datagram as its message handler sees it.  `valid` is the handler's test: more than
\* 12 bytes (mDNS), a mention of crestron, nvx or dmps (SSDP), the 15 00 00 00 signature
\* (vendor); `fields` is the SERVER header (SSDP) or the null-separated parts (vendor)
Datagrams(t) ==
    CASE t = "mdns" -> [valid : BOOLEAN, fields : {<<>>}]
      [] t = "ssdp" -> [valid : BOOLEAN, fields : {<<>>, <<<<"Linux", " ", "UPnP">>>>}]
      [] OTHER -> [valid : BOOLEAN, fields : CrestronFields]

\* resolve of the promise; only the first call settles it
resolve(v, f) ==
    settled' = IF settled.done THEN settled
               ELSE [done |-> TRUE, fulfilled |-> TRUE, value |-> v, failed |-> f]

\* the handler is invoked and the probe creates its socket and starts to bind it
Discover(t) ==
    /\ transport = "none"
    /\ transport' = t
    /\ sock' = "binding"
    /\ found' = <<>>
    /\ seenIPs' = {}
    /\ sends' = 0
    /\ failures' = {}
    /\ heard' = {}
    /\ settled' = Unsettled
    /\ UNCHANGED <<hvars, svars, rvars, dvars, uvars, lvars>>

\* the handler is invoked and dgram.createSocket throws: the promise rejects and the
\* handler's catch block returns []
DiscoverThrows(t) ==
    /\ transport = "none"
    /\ settled = Unsettled
    /\ transport' = t
    /\ sock' = "closed"
    /\ failures' = {"create"}
    /\ settled' = [done |-> TRUE, fulfilled |-> TRUE, value |-> <<>>, failed |-> {"create"}]
    /\ UNCHANGED <<found, seenIPs, sends, heard, hvars, svars, rvars, dvars, uvars, lvars>>

\* bind fails: the socket emits 'error'
BindFails ==
    /\ sock = "binding"
    /\ sock' = "failed"
    /\ failures' = failures \cup {"bind"}
    /\ resolve(found, failures')
    /\ UNCHANGED <<transport, found, seenIPs, sends, heard, hvars, svars, rvars, dvars, uvars, lvars>>

\* the bind callback: addMembership / setBroadcast, then the query is sent
Bound(setupThrows) ==
    /\ sock = "binding"
    /\ sock' = "bound"
    /\ IF setupThrows
       THEN /\ failures' = failures \cup {"setup"}
            /\ sends' = 0
            /\ IF transport = "crestron" THEN resolve(found, failures') ELSE UNCHANGED settled
       ELSE /\ sends' = IF transport = "crestron" THEN 2 ELSE 1
            /\ UNCHANGED <<failures, settled>>
    /\ UNCHANGED <<transport, found, seenIPs, heard, hvars, svars, rvars, dvars, uvars, lvars>>

\* the callback of socket.send: an error is logged, nothing else
SendDone(error) ==
    /\ sock = "bound"
    /\ sends > 0
    /\ sends' = sends - 1
    /\ failures' = IF error THEN failures \cup {"send"} ELSE failures
    /\ UNCHANGED <<transport, sock, found, seenIPs, heard, settled, hvars, svars, rvars, dvars, uvars, lvars>>

Listed(devs, ip) == \E i \in 1..Len(devs) : devs[i].ipAddress = ip

\* the message handler of the probe
Message(ip, dg) ==
    /\ sock = "bound"
    /\ Cardinality(heard) < MaxMessages
    /\ [ip |-> ip, dg |-> dg] \notin heard
    /\ heard' = heard \cup {[ip |-> ip, dg |-> dg]}
    /\ CASE transport = "mdns" ->
              /\ found' = IF dg.valid /\ ~Listed(found, ip)
                          THEN Append(found, [ipAddress |-> ip, model |-> <<NVX, " ", "(mDNS)">>,
                                              description |-> <<>>])
                          ELSE found
              /\ UNCHANGED seenIPs
         [] transport = "ssdp" ->
              /\ found' = IF dg.valid /\ ~Listed(found, ip)
                          THEN Append(found, [ipAddress |-> ip,
                                              model |-> IF dg.fields # <<>> THEN Trim(dg.fields[1])
                                                        ELSE <<NVX, " ", "(SSDP)">>,
                                              description |-> <<>>])
                          ELSE found
              /\ UNCHANGED seenIPs
         [] OTHER ->
              IF dg.valid /\ ip \notin seenIPs
              THEN /\ seenIPs' = seenIPs \cup {ip}
                   /\ found' = found \o parseDeviceInfo(dg.fields, ip)
              ELSE UNCHANGED <<found, seenIPs>>
    /\ UNCHANGED <<transport, sock, sends, failures, settled, hvars, svars, rvars, dvars, uvars, lvars>>

\* the socket emits 'error' while it is bound
SocketError ==
    /\ sock = "bound"
    /\ "socket" \notin failures
    /\ failures' = failures \cup {"socket"}
    /\ resolve(found, failures')
    /\ UNCHANGED <<transport, sock, found, seenIPs, sends, heard, hvars, svars, rvars, dvars, uvars, lvars>>

\* the timeout: the socket is closed and the promise resolved
Timeout ==
    /\ transport # "none"
    /\ sock # "closed"
    /\ sock' = "closed"
    /\ sends' = 0
    /\ resolve(found, failures)
    /\ UNCHANGED <<transport, found, seenIPs, failures, heard, hvars, svars, rvars, dvars, uvars, lvars>>

\* the call is over
ProbeOver ==
    /\ transport # "none"
    /\ sock = "closed"
    /\ transport' = "none"
    /\ found' = <<>>
    /\ seenIPs' = {}
    /\ failures' = {}
    /\ heard' = {}
    /\ settled' = Unsettled
    /\ UNCHANGED <<sock, sends, hvars, svars, rvars, dvars, uvars, lvars>>

NextProbe ==
    \/ \E t \in Transports : Discover(t)
    \/ \E t \in Transports : DiscoverThrows(t)
    \/ BindFails
    \/ \E b \in BOOLEAN : Bound(b)
    \/ \E e \in BOOLEAN : SendDone(e)
    \/ \E ip \in RegAddresses : \E dg \in Datagrams(transport) : Message(ip, dg)
    \/ SocketError
    \/ Timeout
    \/ ProbeOver

\* one call of a discover handler at a time, under any sequence of socket events
SpecProbe == Init /\ [][NextProbe]_vars

\* C14: a discover call never rejects, and when a transport failure has occurred by the
\* time it settles, the value it fulfils with is the empty list
C14_ProbeFailsEmpty ==
    settled.done => settled.fulfilled /\ (settled.failed # {} => settled.value = <<>>)

\* C14, the part that holds: whatever the socket does, the call settles by fulfilling
C14_ProbeNeverRejects == settled.done => settled.fulfilled

\* C15: every device the vendor probe fulfils with has a model that starts with DM-NVX,
\* and comes from a response of its address whose description gives that model
C15_VendorModelPrefix ==
    (settled.done /\ transport = "crestron") =>
        \A i \in 1..Len(settled.value) :
            LET d == settled.value[i]
            IN  /\ d.model # <<>>
                /\ d.model[1] = NVX
                /\ \E h \in heard :
                       /\ h.ip = d.ipAddress
                       /\ h.dg.valid
                       /\ \E k \in 1..Len(h.dg.fields) :
                              Trim(SplitHead(h.dg.fields[k], "[")) = d.model

C15_Witness ==
    /\ settled.done
    /\ transport = "crestron"
    /\ Len(settled.value) = 1
    /\ Cardinality(heard) = 2
    /\ \E h \in heard : h.dg.valid /\ h.dg.fields[2] = <<"DMPS3", "/", NVX, " ", "[", "v1", "]">>

----------------------------------------------------------------------------
(* Session headers and session closure of the IPC handlers *)

\* the Cookie header the login response calls for: each Set-Cookie entry cut at its
\* first ';', the cuts joined with '; '
SessionCookie == IF env.loginCookies.present THEN JoinCookies(env.loginCookies.arr) ELSE EmptyStr

\* C16 as stated: every authenticated request carries the session cookie, and the token
\* header exactly when the login response had one, with its value
C16_SessionHeaders ==
    \A k \in AuthSends :
        /\ log[k].cookie = SessionCookie
        /\ log[k].xsrf = env.loginXsrf

\* C16: every authenticated request carries the session cookie, and the token header
\* exactly when the login response had one with a non-empty value, with that value
C16_SessionHeadersAmended ==
    \A k \in AuthSends :
        /\ log[k].cookie = SessionCookie
        /\ log[k].xsrf = IF env.loginXsrf \in {Undefined, EmptyStr} THEN Undefined ELSE env.loginXsrf

C16_Witness ==
    /\ op = "import"
    /\ epIdx = 2
    /\ Cardinality(AuthSends) = 2
    /\ env.loginXsrf = <<"x1">>
    /\ \A k \in AuthSends :
           /\ log[k].xsrf = <<"x1">>
           /\ log[k].cookie = <<"userstr", "=", "u1", ";", " ", "userid", "=", "i1">>

AuthAnswers == {k \in Recvs : log[k].kind = "auth"}
LogoutSends == {k \in Sends : log[k].kind = "logout"}

\* C17: an import that logged in has, once it is past its fetches, had every sub-resource
\* fetch answered or failed, then sent one logout with the session cookie; what it returns
\* is the parameters built from the answers, whatever became of the logout
C17_ImportAlwaysLogsOut ==
    (op = "import" /\ Authenticated /\ pc \in {"logout", "done"}) =>
        /\ Cardinality(AuthAnswers) = Len(deviceEndpoints)
        /\ Cardinality(LogoutSends) = 1
        /\ \A k \in LogoutSends :
               /\ log[k].cookie = SessionCookie
               /\ \A j \in AuthSends \cup AuthAnswers : j < k
        /\ result = [success |-> TRUE, parameters |-> BuildParameters(args.ipAddress, responses)]

C17_Witness ==
    /\ op = "import"
    /\ pc = "done"
    /\ Authenticated
    /\ env.failSet = EndpointSet
    /\ responses = EmptyObj
    /\ log[Len(log)].kind = "logout"
    /\ log[Len(log)].ev = "recv"
    /\ log[Len(log)].status = 0
    /\ result.success

\* C18: a handler other than import that logged in has, by the time it returns, sent a
\* logout with the session cookie after its authenticated request
C18_SessionsAreClosed ==
    (op \in AuthOps \ {"import"} /\ Authenticated /\ pc = "done") =>
        \E k \in LogoutSends :
            /\ log[k].cookie = SessionCookie
            /\ \A j \in AuthSends : j < k

\* C18, the part that holds: identify and the network-adapter update log out once the
\* device has accepted the request
C18_AcceptedWritesLogOut ==
    (op \in {"identify", "updateAdapters"} /\ pc = "done" /\ result.success) =>
        \E k \in LogoutSends :
            /\ log[k].cookie = SessionCookie
            /\ \A j \in AuthSends : j < k

----------------------------------------------------------------------------
(* Writes: DeviceConnectionService.updateParameter with DeviceParameters.handleSave, *)
(* and NetworkAdapterSettings.saveNetworkSettings *)

\* the fields and values the user edits while writes are followed
Fields == {"mode"}
Values == {"Transmitter"}
SettingEdits == {"HostName=nvx-new"}

\* the devices the components meet: a login page that behaves, any login status
WriteEnvs ==
    {e \in Envs : /\ e.setCookie = SetCookie(<< <<"TRACKID", "=", "t2">> >>)
                  /\ e.loginXsrf = <<"x1">>
                  /\ e.loginCookies # NoSetCookie}

NoSvcCall == [method |-> "none", ipAddress |-> ""]

\* no component handler or service method is awaiting, no import result is undelivered
Settled ==
    /\ uiCall = NoCall
    /\ svcCall.method = "none"
    /\ op = "none"
    /\ ~(svcResult.success /\ Has(svcResult, "parameters"))

\* a faulty test: the write is taken as done whatever the result says
WriteAcceptedMut(r) == TRUE
\* if (result.success)
WriteAccepted(r) == r.success

\* the update-parameter handler: a placeholder that logs and answers success without a
\* request to the device; its catch block answers a failure
updateParameterResult(thrown) == IF thrown THEN Fail("error.message") ELSE [success |-> TRUE]

\* DeviceConnection.handleConnect, while the device is not connected
handleConnect(ip, c, o, e) == Settled /\ ~isDeviceConnected(ip) /\ SvcConnect(ip, c, o, e)

\* DeviceConnection.handleImportParameters
handleImportParameters(ip, e) == Settled /\ isDeviceConnected(ip) /\ SvcImport(ip, e)

\* Devices.handleParametersImported, the continuation of handleImportParameters
handleParametersImported ==
    /\ uiCall = NoCall
    /\ svcCall.method = "none"
    /\ svcResult.success
    /\ Has(svcResult, "parameters")
    /\ pageParameters' = <<svcResult.parameters>>
    /\ editValues' = EmptyObj
    /\ svcResult' = NoResult
    /\ UNCHANGED <<hvars, connections, credentials, certificateOptions, deviceParameters, svcCall,
                   rvars, dvars, pvars, shownNetworkData, editedSettings, hasChanges, uiCall,
                   atCall, lastWrite, lvars>>

\* DeviceConnection.handleDisconnect with Devices.handleConnectionChange(false)
handleDisconnect(ip) ==
    /\ Settled
    /\ connections' = MapSet(connections, ip, [isConnected |-> FALSE])
    /\ credentials' = MapDelete(credentials, ip)
    /\ certificateOptions' = MapDelete(certificateOptions, ip)
    /\ pageParameters' = <<>>
    /\ editValues' = EmptyObj
    /\ UNCHANGED <<hvars, deviceParameters, svcCall, svcResult, rvars, dvars, pvars,
                   shownNetworkData, editedSettings, hasChanges, uiCall, atCall, lastWrite, lvars>>

\* DeviceParameters.handleEdit and the input's onChange
handleEdit(field, value) ==
    /\ Settled
    /\ pageParameters # <<>>
    /\ editValues' = [f \in {field} |-> value]
    /\ UNCHANGED <<hvars, svars, rvars, dvars, pvars, pageParameters, shownNetworkData,
                   editedSettings, hasChanges, uiCall, atCall, lastWrite, lvars>>

\* DeviceParameters.handleSave into DeviceConnectionService.updateParameter, up to the
\* service's await of window.electronAPI.updateParameter (or its early return)
handleSave(field, thrown) ==
    /\ Settled
    /\ pageParameters # <<>>
    /\ field \in DOMAIN editValues
    /\ uiCall' = [name |-> "save", field |-> field, value |-> editValues[field]]
    /\ atCall' = Data
    /\ LET ip == pageParameters[1].ipAddress
       IN  IF ~isDeviceConnected(ip)
           THEN /\ svcResult' = Fail("Device not connected")
                /\ svcCall' = [method |-> "updated", ipAddress |-> ip]
           ELSE IF ~Has(credentials, ip)
                THEN /\ svcResult' = Fail("No credentials found")
                     /\ svcCall' = [method |-> "updated", ipAddress |-> ip]
                ELSE /\ svcResult' = updateParameterResult(thrown)
                     /\ svcCall' = [method |-> "update", ipAddress |-> ip]
    /\ UNCHANGED <<hvars, connections, credentials, certificateOptions, deviceParameters,
                   rvars, dvars, pvars, pageParameters, editValues, shownNetworkData,
                   editedSettings, hasChanges, lastWrite, lvars>>

\* updateParameter after its await: a successful write is followed by importDeviceParameters
updateParameterResumes(e) ==
    /\ svcCall.method = "update"
    /\ IF svcResult.success
       THEN /\ Begin("import",
                     [ipAddress |-> svcCall.ipAddress, credentials |-> credentials[svcCall.ipAddress],
                      certOptions |-> IF Has(certificateOptions, svcCall.ipAddress)
                                      THEN certificateOptions[svcCall.ipAddress]
                                      ELSE "any_certificate",
                      duration |-> 0], e)
            /\ svcCall' = [svcCall EXCEPT !.method = "refresh"]
       ELSE /\ svcCall' = [svcCall EXCEPT !.method = "updated"]
            /\ UNCHANGED hvars
    /\ UNCHANGED <<connections, credentials, certificateOptions, deviceParameters, svcResult,
                   rvars, dvars, pvars, uvars, lvars>>

\* updateParameter from the end of that import to its return
updateParameterReturns ==
    /\ svcCall.method = "refresh"
    /\ pc = "done"
    /\ deviceParameters' = IF result.success /\ Has(result, "parameters")
                           THEN MapSet(deviceParameters, svcCall.ipAddress, result.parameters)
                           ELSE deviceParameters
    /\ svcCall' = [svcCall EXCEPT !.method = "updated"]
    /\ Idle
    /\ result' = NoResult
    /\ UNCHANGED <<connections, credentials, certificateOptions, svcResult, rvars, dvars, pvars, uvars, lvars>>

\* handleSave after its await, with Devices.handleParameterUpdate
handleSaveResumes ==
    /\ uiCall.name = "save"
    /\ svcCall.method = "updated"
    /\ IF WriteAccepted(svcResult) /\ pageParameters # <<>>
       THEN /\ pageParameters' = <<[pageParameters[1] EXCEPT ![uiCall.field] = uiCall.value]>>
            /\ editValues' = EmptyObj
       ELSE UNCHANGED <<pageParameters, editValues>>
    /\ lastWrite' = IF svcResult.success THEN <<[field |-> uiCall.field, value |-> uiCall.value]>>
                    ELSE lastWrite
    /\ uiCall' = NoCall
    /\ svcCall' = NoSvcCall
    /\ svcResult' = NoResult
    /\ UNCHANGED <<hvars, connections, credentials, certificateOptions, deviceParameters,
                   rvars, dvars, pvars, shownNetworkData, editedSettings, hasChanges, atCall, lvars>>

\* NetworkAdapterSettings.loadNetworkData up to its await
loadNetworkData(a, e) ==
    /\ Settled
    /\ Begin("getAdapters", a, e)
    /\ uiCall' = [name |-> "load", field |-> "", value |-> ""]
    /\ UNCHANGED <<svars, rvars, dvars, pvars, pageParameters, editValues, shownNetworkData,
                   editedSettings, hasChanges, atCall, lastWrite, lvars>>

\* loadNetworkData after its await
loadNetworkDataResumes ==
    /\ uiCall.name = "load"
    /\ pc = "done"
    /\ IF result.success /\ Has(result, "networkAdapters")
       THEN /\ shownNetworkData' = <<[data |-> result.networkAdapters, edits |-> {}]>>
            /\ editedSettings' = [data |-> result.networkAdapters, edits |-> {}]
            /\ hasChanges' = FALSE
       ELSE UNCHANGED <<shownNetworkData, editedSettings, hasChanges>>
    /\ uiCall' = NoCall
    /\ Idle
    /\ result' = NoResult
    /\ UNCHANGED <<svars, rvars, dvars, pvars, pageParameters, editValues, atCall, lastWrite, lvars>>

\* NetworkAdapterSettings.updateSetting
updateSetting(edit) ==
    /\ Settled
    /\ shownNetworkData # <<>>
    /\ editedSettings' = [editedSettings EXCEPT !.edits = @ \cup {edit}]
    /\ hasChanges' = TRUE
    /\ UNCHANGED <<hvars, svars, rvars, dvars, pvars, pageParameters, editValues,
                   shownNetworkData, uiCall, atCall, lastWrite, lvars>>

\* NetworkAdapterSettings.saveNetworkSettings up to its await
saveNetworkSettings(a, e) ==
    /\ Settled
    /\ hasChanges
    /\ Begin("updateAdapters", a, e)
    /\ uiCall' = [name |-> "saveNetwork", field |-> "", value |-> ""]
    /\ atCall' = Data
    /\ UNCHANGED <<svars, rvars, dvars, pvars, pageParameters, editValues, shownNetworkData,
                   editedSettings, hasChanges, lastWrite, lvars>>

\* saveNetworkSettings after its await
saveNetworkSettingsResumes ==
    /\ uiCall.name = "saveNetwork"
    /\ pc = "done"
    /\ IF WriteAccepted(result)
       THEN /\ shownNetworkData' = <<editedSettings>>
            /\ hasChanges' = FALSE
       ELSE UNCHANGED <<shownNetworkData, hasChanges>>
    /\ uiCall' = NoCall
    /\ Idle
    /\ result' = NoResult
    /\ UNCHANGED <<svars, rvars, dvars, pvars, pageParameters, editValues, editedSettings,
                   atCall, lastWrite, lvars>>

NextWrites ==
    \/ \E ip \in Addresses, e \in ConnectEnvs : handleConnect(ip, "admin:pw1", "any_certificate", e)
    \/ SvcConnectReturn
    \/ \E ip \in Addresses, e \in WriteEnvs : handleImportParameters(ip, e)
    \/ SvcImportReturn
    \/ handleParametersImported
    \/ \E ip \in Addresses : handleDisconnect(ip)
    \/ \E f \in Fields, v \in Values : handleEdit(f, v)
    \/ \E f \in Fields, thrown \in BOOLEAN : handleSave(f, thrown)
    \/ \E e \in WriteEnvs : updateParameterResumes(e)
    \/ updateParameterReturns
    \/ handleSaveResumes
    \/ \E a \in DirectArgs("getAdapters"), e \in WriteEnvs : loadNetworkData(a, e)
    \/ loadNetworkDataResumes
    \/ \E x \in SettingEdits : updateSetting(x)
    \/ \E a \in DirectArgs("updateAdapters"), e \in WriteEnvs : saveNetworkSettings(a, e)
    \/ saveNetworkSettingsResumes
    \/ \E st \in ConnectStatuses : Connect(st)
    \/ \E st \in {0, 200} : Track(st)
    \/ \E st \in {0, env.loginStatus} : Login(st)
    \/ Fetch
    \/ \E st \in {0, 200, 400} : Action(st)
    \/ \E st \in {0, 200} : Logout(st)

\* the components that write to a device, over the service and the handlers, one call at
\* a time
SpecWrites == Init /\ [][NextWrites]_vars

\* the import the service is about to return was answered by the device itself
LiveImport == svcCall.method = "import" /\ pc = "done" /\ Authenticated /\ env.failSet = {}

\* C19: after updateParameter has reported a write of a field as done, an import that the
\* device answers returns parameters in which that field has the value written
C19_RoundTrip ==
    [][(LiveImport /\ lastWrite # <<>> /\ svcCall'.method = "none") =>
           /\ svcResult'.success
           /\ svcResult'.parameters[lastWrite[1].field] = lastWrite[1].value]_vars

\* a write has failed and its component handler is about to resume
WriteFailed ==
    \/ uiCall.name = "save" /\ svcCall.method = "updated" /\ ~svcResult.success
    \/ uiCall.name = "saveNetwork" /\ pc = "done" /\ ~result.success

C20_SaveFailureReached ==
    /\ uiCall.name = "save"
    /\ svcCall.method = "updated"
    /\ ~svcResult.success
    /\ pageParameters # <<>>
    /\ deviceParameters # EmptyObj


----------------------------------------------------------------------------
(* Identify (claim C21) *)

IdentifySends == {k \in Sends : log[k].path = "POST /Device/Identify"}

\* an identify call that reported success sent one identify POST, carrying Action Start
\* and the caller's duration, sent nothing but the logout after it, and reports that duration
IdentifiedOnce ==
    (op = "identify" /\ pc = "done" /\ result.success) =>
        /\ Cardinality(IdentifySends) = 1
        /\ \A k \in IdentifySends :
               /\ log[k].body = <<[Action |-> "Start", Duration |-> args.duration]>>
               /\ \A j \in Sends : j > k => log[j].kind = "logout"
        /\ result.duration = args.duration

----------------------------------------------------------------------------
(* Failed connects (claim C22) *)

\* a connectToDevice call returns failure in this step
ConnectFailed == svcCall.method = "connect" /\ svcCall'.method = "none" /\ ~svcResult'.success

\* C22: after a connect attempt that the device rejected, the service holds no credentials
\* and no session for that address, whatever it held before the attempt.
C22_FailedConnectForgets ==
    [][ConnectFailed =>
           /\ ~Has(credentials', svcCall.ipAddress)
           /\ ~(Has(connections', svcCall.ipAddress) /\ connections'[svcCall.ipAddress].isConnected)]_vars

\* the half that holds: a failed connect leaves the address without a session
C22_FailedConnectEndsSession ==
    [][ConnectFailed =>
           ~(Has(connections', svcCall.ipAddress) /\ connections'[svcCall.ipAddress].isConnected)]_vars


----------------------------------------------------------------------------
(* Disconnect (claim C23) *)

\* this.connections.get(ipAddress) || { isConnected: false }
getConnectionStatus(ip) == IF Has(connections, ip) THEN connections[ip] ELSE [isConnected |-> FALSE]

getConnectedDevices == {ip \in DOMAIN connections : connections[ip].isConnected}

\* what a caller can read about an address: the three queries, and the stored credentials
\* and certificate options (a list of zero or one)
Observed(ip) ==
    <<isDeviceConnected(ip), getConnectionStatus(ip), getConnectedDevices,
      IF Has(credentials, ip) THEN <<credentials[ip]>> ELSE <<>>,
      IF Has(certificateOptions, ip) THEN <<certificateOptions[ip]>> ELSE <<>> >>

\* C23: disconnect(address) on an address with no active session changes nothing a caller
\* can observe: isDeviceConnected, getConnectionStatus, getConnectedDevices, the stored
\* credentials and the stored certificate options.
C23_DisconnectIsNoOp ==
    [][\A ip \in Addresses :
           (SvcDisconnect(ip) /\ ~isDeviceConnected(ip)) => Observed(ip)' = Observed(ip)]_vars

\* the halves that hold: on an address the service holds nothing about, or has already
\* disconnected, disconnect changes nothing a caller can observe
C23_DisconnectTwiceIsOnce ==
    [][\A ip \in Addresses :
           (/\ SvcDisconnect(ip)
            /\ getConnectionStatus(ip) = [isConnected |-> FALSE]
            /\ ~Has(credentials, ip)
            /\ ~Has(certificateOptions, ip)) => Observed(ip)' = Observed(ip)]_vars


----------------------------------------------------------------------------
(* Payload resolution (claim C24) *)

\* the sub-resources as the device holds them, without wrapping, for the fetches that
\* were answered
Unwrapped == [ep \in EndpointSet \ env.failSet |-> LivePayload(ep, env)]

C24_WitnessFailedFetch ==
    /\ op = "import" /\ pc = "done" /\ result.success /\ AuthSends # {}
    /\ "/Device/DeviceInfo" \in env.failSet
    /\ result.parameters.firmwareVersion = "6.0.1-root"


----------------------------------------------------------------------------
(* Fallback to http (claim C25) *)

\* the handshake requests sent over http right after the https attempt of the same step
Retries ==
    {k \in Sends : /\ log[k].kind \in {"track", "login"}
                   /\ log[k].scheme = "http"
                   /\ k > 1
                   /\ log[k - 1].ev = "recv"
                   /\ log[k - 1].kind = log[k].kind
                   /\ log[k - 1].scheme = "https"}

\* C25: a handshake step is retried over http only when its https attempt failed without
\* an HTTP answer; when the device answered the https attempt with a response of any
\* status, the step is not sent again over http.
C25_RetryOnlyWithoutAnswer == \A k \in Retries : log[k - 1].status = 0

\* the half that holds: each step is sent over http at most once
C25_RetriedAtMostOnce ==
    \A kind \in {"track", "login"} :
        Cardinality({k \in Sends : log[k].kind = kind /\ log[k].scheme = "http"}) <= 1


----------------------------------------------------------------------------
(* Removal and the refresh cycle (claim C26) *)

\* ip is not in the registry before this step and is in it after
Enters(ip) ==
    IndexOfAddress(discoveredDevices, ip) = 0 /\ IndexOfAddress(discoveredDevices', ip) # 0

\* C26: once removeDevice(ip) has returned, ip stays out of the registry (and so out of
\* every list handed to subscribers) until a discovery that sighted the address merges
\* its result: no other step brings an absent address into the registry.
C26_RemovedStaysAbsent ==
    [][\A ip \in RegAddresses :
           Enters(ip) => /\ returned'.done
                         /\ \E i \in 1..Len(returned'.devices) : returned'.devices[i].ipAddress = ip]_vars


----------------------------------------------------------------------------
(* Overlapping discoveries (claim C27) *)

\* C27: isDiscovering is true whenever at least one startDiscovery call is in flight
\* (so that no refresh cycle begins during a discovery), also when two calls overlap and
\* the first finishes before the second.
C27_DiscoveringWhileInFlight == discoveries # <<>> => isDiscovering

\* the half that holds: a refresh cycle begins only while isDiscovering is false
C27_RefreshChecksFlag == [][Len(cycles') > Len(cycles) => ~isDiscovering]_vars


----------------------------------------------------------------------------
(* Concurrent connects (claim C28) *)

\* connectToDevice calls in flight at once
MaxConnects == 2

\* what the callers pass: each set of credentials goes with its own certificate options
ConnectInputs ==
    { [credentials |-> "admin:pw1", certOptions |-> "any_certificate"],
      [credentials |-> "admin:pw2", certOptions |-> "valid_ca_only"] }

\* the certificate options a call passes along with credentials c
PassedWith(c) == (CHOOSE i \in ConnectInputs : i.credentials = c).certOptions

\* connectToDevice up to its await: the options are stored, the handler is invoked
connectToDevice(ip, i) ==
    /\ Len(connects) < MaxConnects
    /\ certificateOptions' = MapSet(certificateOptions, ip, i.certOptions)
    /\ connects' = Append(connects, [method |-> "connect", ipAddress |-> ip,
                                     credentials |-> i.credentials, certOptions |-> i.certOptions])
    /\ svcResult' = NoResult
    /\ UNCHANGED <<hvars, connections, credentials, deviceParameters, svcCall,
                   rvars, dvars, pvars, uvars, isIdentifying>>

\* the connect-device handler of call id settles, and connectToDevice runs to its return
connectDeviceSettles(id, outcome) ==
    /\ id \in DOMAIN connects
    /\ connects[id].method = "connect"
    /\ IF outcome = "success"
       THEN /\ connections' = MapSet(connections, connects[id].ipAddress, [isConnected |-> TRUE])
            /\ credentials' = MapSet(credentials, connects[id].ipAddress, connects[id].credentials)
       ELSE /\ connections' = MapSet(connections, connects[id].ipAddress,
                                     [isConnected |-> FALSE,
                                      error |-> IF outcome = "failure" THEN "Authentication failed"
                                                ELSE "Connection failed"])
            /\ UNCHANGED credentials
    /\ connects' = Without(connects, id)
    /\ svcResult' = IF outcome = "success" THEN [success |-> TRUE] ELSE Fail(connections'[connects[id].ipAddress].error)
    /\ UNCHANGED <<hvars, certificateOptions, deviceParameters, svcCall,
                   rvars, dvars, pvars, uvars, isIdentifying>>

\* the guards of importDeviceParameters and updateParameter: the failure returned without
\* a call to the main process, as a list of zero or one
Refused(ip, notConnected, noCredentials) ==
    IF ~isDeviceConnected(ip) THEN <<Fail(notConnected)>>
    ELSE IF ~Has(credentials, ip) THEN <<Fail(noCredentials)>>
    ELSE <<>>

\* the call a service method makes to the main process for ip
Invoke(method, ip) ==
    [method |-> method, ipAddress |-> ip, credentials |-> credentials[ip],
     certOptions |-> IF Has(certificateOptions, ip) THEN certificateOptions[ip]
                     ELSE "any_certificate"]

\* importDeviceParameters up to its await, or to its early return
importDeviceParameters(ip) ==
    /\ LET refused == Refused(ip, "Device not connected. Please connect first.",
                              "No credentials found for device.")
       IN  IF refused # <<>>
           THEN svcResult' = refused[1] /\ UNCHANGED connects
           ELSE /\ Len(connects) < MaxConnects
                /\ svcResult' = NoResult
                /\ connects' = Append(connects, Invoke("import", ip))
    /\ UNCHANGED <<hvars, connections, credentials, certificateOptions, deviceParameters, svcCall,
                   rvars, dvars, pvars, uvars, isIdentifying>>

\* updateParameter up to its await, or to its early return
updateParameter(ip) ==
    /\ LET refused == Refused(ip, "Device not connected", "No credentials found")
       IN  IF refused # <<>>
           THEN svcResult' = refused[1] /\ UNCHANGED connects
           ELSE /\ Len(connects) < MaxConnects
                /\ svcResult' = NoResult
                /\ connects' = Append(connects, Invoke("update", ip))
    /\ UNCHANGED <<hvars, connections, credentials, certificateOptions, deviceParameters, svcCall,
                   rvars, dvars, pvars, uvars, isIdentifying>>

\* the import-parameters handler of call id settles (an import of its own, or the
\* refresh of an update), and the service method runs to its return
importParametersSettles(id, outcome) ==
    /\ id \in DOMAIN connects
    /\ connects[id].method \in {"import", "refresh"}
    /\ deviceParameters' = IF outcome = "success"
                           THEN MapSet(deviceParameters, connects[id].ipAddress, "parameters")
                           ELSE deviceParameters
    /\ svcResult' = IF connects[id].method = "refresh" \/ outcome = "success"
                    THEN [success |-> TRUE] ELSE Fail("Failed to import parameters")
    /\ connects' = Without(connects, id)
    /\ UNCHANGED <<hvars, connections, credentials, certificateOptions, svcCall,
                   rvars, dvars, pvars, uvars, isIdentifying>>

\* the update-parameter handler of call id settles; after a successful write
\* updateParameter awaits importDeviceParameters, which tests its guards anew
updateParameterSettles(id, outcome) ==
    /\ id \in DOMAIN connects
    /\ connects[id].method = "update"
    /\ LET ip == connects[id].ipAddress
           refused == Refused(ip, "Device not connected. Please connect first.",
                              "No credentials found for device.")
       IN  IF outcome = "success" /\ refused = <<>>
           THEN /\ connects' = [connects EXCEPT ![id] = Invoke("refresh", ip)]
                /\ svcResult' = NoResult
           ELSE /\ connects' = Without(connects, id)
                /\ svcResult' = IF outcome = "success" THEN [success |-> TRUE]
                                ELSE Fail("Update failed")
    /\ UNCHANGED <<hvars, connections, credentials, certificateOptions, deviceParameters, svcCall,
                   rvars, dvars, pvars, uvars, isIdentifying>>

NextConnects ==
    \/ \E ip \in Addresses, i \in ConnectInputs : connectToDevice(ip, i)
    \/ \E id \in 1..MaxConnects, outcome \in {"success", "failure", "thrown"} :
           connectDeviceSettles(id, outcome)
    \/ \E ip \in Addresses : importDeviceParameters(ip)
    \/ \E ip \in Addresses : updateParameter(ip)
    \/ \E id \in 1..MaxConnects, outcome \in {"success", "failure"} :
           importParametersSettles(id, outcome)
    \/ \E id \in 1..MaxConnects, outcome \in {"success", "failure"} :
           updateParameterSettles(id, outcome)
    \/ \E ip \in Addresses : SvcDisconnect(ip)

\* the service's methods called at any time, their awaits overlapping
SpecConnects == Init /\ [][NextConnects]_vars

\* C28: whenever the service marks an address connected, the certificate options stored
\* for it are the ones passed to the connectToDevice call whose credentials are stored,
\* under any interleaving of concurrent connectToDevice calls for the address.
C28_OptionsMatchCredentials ==
    \A ip \in Addresses :
        isDeviceConnected(ip) =>
            /\ Has(credentials, ip)
            /\ Has(certificateOptions, ip)
            /\ certificateOptions[ip] = PassedWith(credentials[ip])


\* importDeviceParameters or updateParameter is called for ip in this step
GuardedCall(ip) == importDeviceParameters(ip) \/ updateParameter(ip)

\* C29: under any interleaving of connectToDevice, disconnectDevice, importDeviceParameters
\* and updateParameter, an address marked connected has credentials stored; and an import
\* or update called for an address that is not connected returns a failure, invokes no
\* device operation and leaves the cached parameters as they were.
C29_ConnectedHasCredentials ==
    [][\A ip \in Addresses :
           /\ (Has(connections', ip) /\ connections'[ip].isConnected) => Has(credentials', ip)
           /\ (GuardedCall(ip) /\ ~(Has(connections, ip) /\ connections[ip].isConnected)) =>
                  /\ ~svcResult'.success
                  /\ svcResult'.error \in {"Device not connected. Please connect first.",
                                           "Device not connected"}
                  /\ connects' = connects
                  /\ deviceParameters' = deviceParameters]_vars

\* an update was refused for an address that lost its session while an import of it is
\* still in flight
C29_Witness ==
    /\ svcResult = Fail("Device not connected")
    /\ \E ip \in Addresses :
           /\ Has(connections, ip) /\ ~connections[ip].isConnected
           /\ \E id \in DOMAIN connects :
                  connects[id].method = "import" /\ connects[id].ipAddress = ip

\* an address is connected, with credentials, while another connect to it is in flight
C29_WitnessConnected ==
    \E ip \in Addresses :
        /\ Has(connections, ip) /\ connections[ip].isConnected /\ Has(credentials, ip)
        /\ \E id \in DOMAIN connects : connects[id].method = "connect"


----------------------------------------------------------------------------
(* Manual entry (claim C30) *)

NextManual ==
    \/ \E ip \in RegAddresses, hit \in BOOLEAN : addDevice(ip, hit)
    \/ \E cb \in Callbacks : onDevicesDiscovered(cb)
    \/ DiscoverAlone
    \/ \E id \in 1..MaxDiscoveries, ip \in SubscriberAddresses, src \in Probes : ProbeSights(id, ip, src)
    \/ \E id \in 1..MaxDiscoveries : DiscoveryComplete(id)
    \/ \E ip \in RegAddresses : removeDevice(ip)

\* manual entry next to discoveries, removals and subscriptions, one discovery at a time
SpecManual == Init /\ [][NextManual]_vars

\* an addDevice call returned in this step
Added == Has(returned', "probed")

====
